---- MODULE Spec2Model ----
(***************************************************************************)
(* Model of the command/undo engine of the interactive geometry editor:    *)
(* the entity maps of EditModeManager, the concrete commands of            *)
(* utils/undo.py and the two stacks of UndoManager.                        *)
(*                                                                         *)
(* Conventions                                                             *)
(*  - A coordinate triple is abstracted to one integer in thousandths of a *)
(*    unit (1234 is 1.234); a stored Point position also carries the numpy *)
(*    dtype of the array that holds it.                                    *)
(*  - A Python dict is a TLA+ function whose DOMAIN is the set of keys.    *)
(*  - Python None is the string "None" in string-valued fields and NoPos   *)
(*    / NoEnd / <<>> in the others.                                        *)
(*  - A call returns "true", "false", or "raise" when an exception leaves  *)
(*    the callee.                                                          *)
(*  - Rendering (view, actors) is an external sink and is not modelled.    *)
(***************************************************************************)
EXTENDS Integers, Sequences, FiniteSets, TLC

\* ------------------------------------------------------------------ bounds
MaxLimit == 2            \* largest value given to max_items
MaxControlPoints == 3    \* longest list of control points a tool accumulates
MaxSelected == 4         \* most lines and points the plane tool holds selected

\* ------------------------------------------------------------- universes
None == "None"
PointIds == {"p1", "p2"}
EditedPointIds == {"p1"}               \* the point a point-editing session works on
LineIds == {"l1"}
PolylineIds == {"polyline_0"}
CurveIds == {"curve_0"}
PlaneIds == {"plane_1"}

RawCoords == {1234}                    \* thousandths, as handed to the API
ColorArgs == {None, "gray"}            \* the optional colour of a Create*
PickColors == {"yellow"}               \* colours given to set_*_color
LimitArgs == 1 .. MaxLimit             \* limits given to set_max_items
Sessions == {"point", "line", "plane", "curve"}
\* the endpoint pairs, point id lists and vertex lists given to add_*
IdLists == {<<"p1", "p2">>, <<"p1">>}
VertexLists == {<<0, 1234, 2000>>, <<0, 1234>>}
EditCoords == {2000}                   \* coordinates typed into the inspector
\* the orders in which a dict of points may be iterated
PointOrders == {<<"p1", "p2">>, <<"p2", "p1">>}
LineNames == <<"l1">>
PlaneNames == <<"boundary_plane_0", "plane_1">>    \* boundary planes are added first
\* what the projection of an entity can give: its pixel distance to the click
\* (3 and 10 are within the threshold of 10 pixels, 11 is not), its distance
\* to the camera, and whether the click is inside its projected polygon
Projection(screen_dist, depth, inside) ==
    [screen_dist |-> screen_dist, depth |-> depth, inside |-> inside]
PointProjections ==
    {Projection(d, z, FALSE) : d \in {3, 10}, z \in {1, 2}} \cup {Projection(11, 1, FALSE)}
LineProjections ==
    {Projection(3, 1, FALSE), Projection(10, 2, FALSE), Projection(11, 1, FALSE)}
PlaneProjections ==
    {Projection(11, 1, TRUE), Projection(11, 1, FALSE)}
\* a face of the bounding box lies in front of or behind the planes inside it
BoundaryPlaneProjections ==
    {Projection(11, 0, TRUE), Projection(11, 2, TRUE), Projection(11, 1, FALSE)}
PixelThreshold == 10
NoSelected == [type |-> None, id |-> None]
PolylineNames == <<"polyline_0", "polyline_1">>
CurveNames == <<"curve_0", "curve_1">>
\* the ids PlaneOperator._generate_plane_id yields, in order; a session with
\* the plane tool goes on while one of them is unused
PlaneToolNames == <<"plane_0">>
PointNames == <<"p1", "p2">>           \* the ids the point tool generates, in order

DefaultPointColor == "red"             \* (1.0, 0.0, 0.0)
DefaultLineColor == "blue"             \* (0.0, 0.0, 1.0)
DefaultPlaneColor == "green"           \* (0.0, 1.0, 0.0)
DefaultDegree == 3
DefaultNumPoints == 100

\* ---------------------------------------------------------------- helpers
EmptyMap == [k \in {} |-> None]
MapPut(m, k, v) == [x \in (DOMAIN m) \cup {k} |-> IF x = k THEN v ELSE m[x]]
MapDel(m, k) == [x \in (DOMAIN m) \ {k} |-> m[x]]
MapGet(m, k, d) == IF k \in DOMAIN m THEN m[k] ELSE d
Last(s) == s[Len(s)]
Front(s) == SubSeq(s, 1, Len(s) - 1)

\* model/geometry.py round_to_2_decimals: numpy.round, half to even
round_to_2_decimals(r) ==
    LET q == r \div 10
        d == r % 10
    IN  IF d < 5 THEN q * 10
        ELSE IF d > 5 THEN (q + 1) * 10
        ELSE IF q % 2 = 0 THEN q * 10 ELSE (q + 1) * 10

NoPos == [v |-> -1, dtype |-> None]
\* Point(id, position=float64 array): __post_init__ keeps the dtype and rounds
Point(position) == [v |-> round_to_2_decimals(position), dtype |-> "float64"]
\* Point.set_position: a float32 array, rounded
set_position(x) == [v |-> round_to_2_decimals(x), dtype |-> "float32"]

\* a line endpoint is a point id (str) or a coordinate array
NoEnd == [kind |-> None, id |-> None, xyz |-> -1]
RefEnd(pid) == [kind |-> "str", id |-> pid, xyz |-> -1]
XyzEnd(x) == [kind |-> "ndarray", id |-> None, xyz |-> x]
LineEnds == {<<RefEnd("p1"), RefEnd("p2")>>, <<XyzEnd(0), XyzEnd(1234)>>}

\* Polyline.__init__(id, points, name) and Curve.__init__(id, control_points,
\* degree, num_points, name) take no keyword `color`
PolylineInitKeywords == {"id", "points", "name"}
CurveInitKeywords == {"id", "control_points", "degree", "num_points", "name"}

\* a polyline record is the dict CreatePolylineCommand stores, or the list
\* RemovePolylineCommand.undo stores
PolylineDict(ids) == [form |-> "dict", items |-> ids]
PolylineList(xs) == [form |-> "list", items |-> xs]
\* list(x): the keys of a dict, the elements of a list
ListOf(rec) == IF rec.form = "dict" THEN <<"point_ids", "geometry">> ELSE rec.items

CurveRecord(ids, degree, num, geo) ==
    [control_point_ids |-> ids, degree |-> degree, num_points |-> num, geometry |-> geo]

\* -------------------------------------------------------------- variables
VARIABLES
    points, lines, planes, polylines, curves,
    locked_points, locked_lines, locked_planes,
    point_colors, line_colors, plane_colors,
    selected_point_id, selected_line_id, selected_plane_id, active_plane_id,
    undo_stack, redo_stack, max_items,
    call,       \* the last call: its name, what it returned, and the command
                \* object it worked on, as the call left it
    before,     \* the manager and the undo manager as they were before that call
    earlier,    \* when the call before the last one was an execute_and_push that
                \* returned true: its command and the entity state before it
    editing_point_id,   \* SceneInspector: the point shown in the coordinate editor
    line_operator,      \* LineOperator: the lists of clicked point ids
    plane_operator,     \* PlaneOperator: the selected line ids and point ids
    picked_point_prev,  \* view: the point pick_point_at_screen highlighted, and
                        \* the colour it had
    click,      \* what the last call of a tool handler was given and returned
    candidates, \* the candidate list the last call gathered, if it was a
                \* select_at_screen_position (in the order of gathering)
    selected,   \* what that select_at_screen_position returned
    session     \* the tool chosen for this editing session (view._current_tool):
                \* a session works on the entities of one tool

mgr_vars == <<points, lines, planes, polylines, curves,
              locked_points, locked_lines, locked_planes,
              point_colors, line_colors, plane_colors,
              selected_point_id, selected_line_id, selected_plane_id, active_plane_id>>
undo_vars == <<undo_stack, redo_stack, max_items>>
tool_vars == <<line_operator, plane_operator, picked_point_prev>>
vars == <<mgr_vars, undo_vars, call, before, earlier, editing_point_id,
          tool_vars, click, candidates, selected, session>>

\* EditModeManager as one record
Mgr == [points |-> points, lines |-> lines, planes |-> planes,
        polylines |-> polylines, curves |-> curves,
        locked_points |-> locked_points, locked_lines |-> locked_lines,
        locked_planes |-> locked_planes,
        point_colors |-> point_colors, line_colors |-> line_colors,
        plane_colors |-> plane_colors,
        selected_point_id |-> selected_point_id,
        selected_line_id |-> selected_line_id,
        selected_plane_id |-> selected_plane_id,
        active_plane_id |-> active_plane_id]

SetMgr(m) ==
    /\ points' = m.points
    /\ lines' = m.lines
    /\ planes' = m.planes
    /\ polylines' = m.polylines
    /\ curves' = m.curves
    /\ locked_points' = m.locked_points
    /\ locked_lines' = m.locked_lines
    /\ locked_planes' = m.locked_planes
    /\ point_colors' = m.point_colors
    /\ line_colors' = m.line_colors
    /\ plane_colors' = m.plane_colors
    /\ selected_point_id' = m.selected_point_id
    /\ selected_line_id' = m.selected_line_id
    /\ selected_plane_id' = m.selected_plane_id
    /\ active_plane_id' = m.active_plane_id

\* the entity maps, the colour maps and the locked sets of a manager
Entities(m) == <<m.points, m.lines, m.planes, m.polylines, m.curves,
                 m.point_colors, m.line_colors, m.plane_colors,
                 m.locked_points, m.locked_lines, m.locked_planes>>
Selection(m) == <<m.selected_point_id, m.selected_line_id, m.selected_plane_id,
                  m.active_plane_id>>

\* UndoManager as one record
Und == [undo_stack |-> undo_stack, redo_stack |-> redo_stack, max_items |-> max_items]

\* --------------------------------------------------------------- commands
\* every command object, with the fields of all the command classes
Command == [type |-> None, id |-> None,
            position |-> -1, old_position |-> -1, new_position |-> -1,
            start |-> NoEnd, end |-> NoEnd,
            point_ids |-> <<>>, degree |-> 0, num_points |-> 0,
            vertices |-> <<>>,
            color |-> None, locked |-> FALSE,
            new_color |-> None, old_color |-> None,
            saved_point |-> NoPos, saved_start |-> NoEnd, saved_end |-> NoEnd,
            saved_point_ids |-> <<>>, saved_control_ids |-> <<>>,
            saved_degree |-> 0, saved_num_points |-> 0,
            saved_vertices |-> <<>>, saved |-> FALSE,
            saved_color |-> None, was_locked |-> FALSE]

Result(ret, m, c) == [ret |-> ret, m |-> m, c |-> c]

\* ---- CreatePointCommand
CreatePointCommand(point_id, position, color, locked) ==
    [Command EXCEPT !.type = "CreatePoint", !.id = point_id,
                    !.position = position, !.color = color, !.locked = locked]

\* do() of CreatePointCommand without the check for an existing id
CreatePointCommand_do_overwrites(c, m) ==
    LET point == Point(c.position)
        colors == IF c.id \notin DOMAIN m.point_colors
                  THEN MapPut(m.point_colors, c.id,
                              IF c.color # None THEN c.color ELSE DefaultPointColor)
                  ELSE m.point_colors
        locked == IF c.locked THEN m.locked_points \cup {c.id} ELSE m.locked_points
    IN  Result("true",
               [m EXCEPT !.points = MapPut(m.points, c.id, point),
                         !.point_colors = colors,
                         !.locked_points = locked],
               c)

CreatePointCommand_do(c, m) ==
    IF c.id \in DOMAIN m.points THEN Result("false", m, c)
    ELSE LET point == Point(c.position)
             colors == IF c.id \notin DOMAIN m.point_colors
                       THEN MapPut(m.point_colors, c.id,
                                   IF c.color # None THEN c.color ELSE DefaultPointColor)
                       ELSE m.point_colors
             locked == IF c.locked THEN m.locked_points \cup {c.id} ELSE m.locked_points
         IN  Result("true",
                    [m EXCEPT !.points = MapPut(m.points, c.id, point),
                              !.point_colors = colors,
                              !.locked_points = locked],
                    c)

CreatePointCommand_undo(c, m) ==
    IF c.id \notin DOMAIN m.points THEN Result("false", m, c)
    ELSE Result("true",
                [m EXCEPT !.points = MapDel(m.points, c.id),
                          !.point_colors = MapDel(m.point_colors, c.id),
                          !.locked_points = m.locked_points \ {c.id},
                          !.selected_point_id =
                              IF m.selected_point_id = c.id THEN None
                              ELSE m.selected_point_id],
                c)

\* ---- RemovePointCommand
RemovePointCommand(point_id) ==
    [Command EXCEPT !.type = "RemovePoint", !.id = point_id]

\* a variant that leaves the selection as it was
RemovePointCommand_do_keeps_selection(c, m) ==
    IF c.id \in m.locked_points THEN Result("false", m, c)
    ELSE IF c.id \notin DOMAIN m.points THEN Result("false", m, c)
    ELSE Result("true",
                [m EXCEPT !.points = MapDel(m.points, c.id),
                          !.point_colors = MapDel(m.point_colors, c.id)],
                [c EXCEPT !.saved_point = m.points[c.id],
                          !.saved_color = MapGet(m.point_colors, c.id, None),
                          !.was_locked = c.id \in m.locked_points])

RemovePointCommand_do(c, m) ==
    IF c.id \in m.locked_points THEN Result("false", m, c)
    ELSE IF c.id \notin DOMAIN m.points THEN Result("false", m, c)
    ELSE Result("true",
                [m EXCEPT !.points = MapDel(m.points, c.id),
                          !.point_colors = MapDel(m.point_colors, c.id),
                          !.selected_point_id =
                              IF m.selected_point_id = c.id THEN None
                              ELSE m.selected_point_id],
                [c EXCEPT !.saved_point = m.points[c.id],
                          !.saved_color = MapGet(m.point_colors, c.id, None),
                          !.was_locked = c.id \in m.locked_points])

RemovePointCommand_undo(c, m) ==
    IF c.saved_point = NoPos THEN Result("false", m, c)
    ELSE IF c.id \in DOMAIN m.points THEN Result("false", m, c)
    ELSE Result("true",
                [m EXCEPT !.points = MapPut(m.points, c.id, c.saved_point),
                          !.point_colors =
                              IF c.saved_color # None
                              THEN MapPut(m.point_colors, c.id, c.saved_color)
                              ELSE m.point_colors,
                          !.locked_points =
                              IF c.was_locked THEN m.locked_points \cup {c.id}
                              ELSE m.locked_points],
                c)

\* ---- MovePointCommand
MovePointCommand(point_id, old_position, new_position) ==
    [Command EXCEPT !.type = "MovePoint", !.id = point_id,
                    !.old_position = old_position, !.new_position = new_position]

\* an undo of MovePointCommand that reports success and leaves the point
MovePointCommand_undo_keeps_position(c, m) ==
    IF c.id \notin DOMAIN m.points THEN Result("false", m, c)
    ELSE Result("true", m, c)

MovePointCommand_do(c, m) ==
    IF c.id \notin DOMAIN m.points THEN Result("false", m, c)
    ELSE Result("true",
                [m EXCEPT !.points = MapPut(m.points, c.id, set_position(c.new_position))],
                c)

MovePointCommand_undo(c, m) ==
    IF c.id \notin DOMAIN m.points THEN Result("false", m, c)
    ELSE Result("true",
                [m EXCEPT !.points = MapPut(m.points, c.id, set_position(c.old_position))],
                c)

\* ---- CreateLineCommand
CreateLineCommand(line_id, start, end, color, locked) ==
    [Command EXCEPT !.type = "CreateLine", !.id = line_id,
                    !.start = start, !.end = end, !.color = color, !.locked = locked]

CreateLineCommand_do(c, m) ==
    IF c.id \in DOMAIN m.lines THEN Result("false", m, c)
    ELSE IF c.start.kind # c.end.kind
         \* numpy.array("<point id>", dtype=float64) raises ValueError
         THEN Result("raise", m, c)
    ELSE LET colors == IF c.id \notin DOMAIN m.line_colors
                       THEN MapPut(m.line_colors, c.id,
                                   IF c.color # None THEN c.color ELSE DefaultLineColor)
                       ELSE m.line_colors
             locked == IF c.locked THEN m.locked_lines \cup {c.id} ELSE m.locked_lines
         IN  Result("true",
                    [m EXCEPT !.lines = MapPut(m.lines, c.id, <<c.start, c.end>>),
                              !.line_colors = colors,
                              !.locked_lines = locked],
                    c)

\* a variant that refuses to undo the creation of a line
CreateLineCommand_undo_refuses(c, m) == Result("false", m, c)

CreateLineCommand_undo(c, m) ==
    IF c.id \in m.locked_lines THEN Result("false", m, c)
    ELSE IF c.id \notin DOMAIN m.lines THEN Result("false", m, c)
    ELSE Result("true",
                [m EXCEPT !.lines = MapDel(m.lines, c.id),
                          !.line_colors = MapDel(m.line_colors, c.id),
                          !.selected_line_id =
                              IF m.selected_line_id = c.id THEN None
                              ELSE m.selected_line_id],
                c)

\* ---- RemoveLineCommand
RemoveLineCommand(line_id) ==
    [Command EXCEPT !.type = "RemoveLine", !.id = line_id]

\* do() of RemoveLineCommand without the check of the locked set
RemoveLineCommand_do_ignores_lock(c, m) ==
    IF c.id \notin DOMAIN m.lines THEN Result("false", m, c)
    ELSE Result("true",
                [m EXCEPT !.lines = MapDel(m.lines, c.id),
                          !.line_colors = MapDel(m.line_colors, c.id),
                          !.selected_line_id =
                              IF m.selected_line_id = c.id THEN None
                              ELSE m.selected_line_id],
                [c EXCEPT !.saved_start = m.lines[c.id][1],
                          !.saved_end = m.lines[c.id][2],
                          !.saved_color = MapGet(m.line_colors, c.id, None),
                          !.was_locked = c.id \in m.locked_lines])

RemoveLineCommand_do(c, m) ==
    IF c.id \in m.locked_lines THEN Result("false", m, c)
    ELSE IF c.id \notin DOMAIN m.lines THEN Result("false", m, c)
    ELSE Result("true",
                [m EXCEPT !.lines = MapDel(m.lines, c.id),
                          !.line_colors = MapDel(m.line_colors, c.id),
                          !.selected_line_id =
                              IF m.selected_line_id = c.id THEN None
                              ELSE m.selected_line_id],
                [c EXCEPT !.saved_start = m.lines[c.id][1],
                          !.saved_end = m.lines[c.id][2],
                          !.saved_color = MapGet(m.line_colors, c.id, None),
                          !.was_locked = c.id \in m.locked_lines])

RemoveLineCommand_undo(c, m) ==
    IF c.saved_start = NoEnd \/ c.saved_end = NoEnd THEN Result("false", m, c)
    ELSE IF c.id \in DOMAIN m.lines THEN Result("false", m, c)
    ELSE Result("true",
                [m EXCEPT !.lines = MapPut(m.lines, c.id, <<c.saved_start, c.saved_end>>),
                          !.line_colors =
                              IF c.saved_color # None
                              THEN MapPut(m.line_colors, c.id, c.saved_color)
                              ELSE m.line_colors,
                          !.locked_lines =
                              IF c.was_locked THEN m.locked_lines \cup {c.id}
                              ELSE m.locked_lines],
                c)

\* ---- CreatePolylineCommand
CreatePolylineCommand(polyline_id, point_ids, color, locked) ==
    [Command EXCEPT !.type = "CreatePolyline", !.id = polyline_id,
                    !.point_ids = point_ids, !.color = color, !.locked = locked]

\* a creation that stores the polyline as a line between its first two points
CreatePolylineCommand_do_as_line(c, m) ==
    IF Len(c.point_ids) < 2 THEN Result("false", m, c)
    ELSE IF \E i \in 1 .. Len(c.point_ids) : c.point_ids[i] \notin DOMAIN m.points
         THEN Result("false", m, c)
    ELSE Result("true",
                [m EXCEPT !.lines = MapPut(m.lines, c.id,
                                           <<RefEnd(c.point_ids[1]), RefEnd(c.point_ids[2])>>)],
                c)

CreatePolylineCommand_do(c, m) ==
    IF Len(c.point_ids) < 2 THEN Result("false", m, c)
    ELSE IF \E i \in 1 .. Len(c.point_ids) : c.point_ids[i] \notin DOMAIN m.points
         THEN Result("false", m, c)
    ELSE IF ~({"id", "points", "color"} \subseteq PolylineInitKeywords)
         \* Polyline(id=..., points=..., color=...) raises TypeError
         THEN Result("raise", m, c)
    ELSE LET colors == IF c.id \notin DOMAIN m.line_colors
                       THEN MapPut(m.line_colors, c.id,
                                   IF c.color # None THEN c.color ELSE DefaultLineColor)
                       ELSE m.line_colors
             locked == IF c.locked THEN m.locked_lines \cup {c.id} ELSE m.locked_lines
         IN  Result("true",
                    [m EXCEPT !.polylines = MapPut(m.polylines, c.id, PolylineDict(c.point_ids)),
                              !.line_colors = colors,
                              !.locked_lines = locked],
                    c)

CreatePolylineCommand_undo(c, m) ==
    IF c.id \notin DOMAIN m.polylines THEN Result("false", m, c)
    ELSE Result("true", [m EXCEPT !.polylines = MapDel(m.polylines, c.id)], c)

\* ---- RemovePolylineCommand
RemovePolylineCommand(polyline_id) ==
    [Command EXCEPT !.type = "RemovePolyline", !.id = polyline_id]

RemovePolylineCommand_do(c, m) ==
    IF c.id \notin DOMAIN m.polylines THEN Result("false", m, c)
    ELSE Result("true",
                [m EXCEPT !.polylines = MapDel(m.polylines, c.id)],
                [c EXCEPT !.saved_point_ids = ListOf(m.polylines[c.id]),
                          !.saved = TRUE,
                          !.saved_color = MapGet(m.line_colors, c.id, None),
                          !.was_locked = c.id \in m.locked_lines])

RemovePolylineCommand_undo(c, m) ==
    IF ~c.saved THEN Result("false", m, c)
    ELSE IF c.id \in DOMAIN m.polylines THEN Result("false", m, c)
    ELSE Result("true",
                [m EXCEPT !.polylines = MapPut(m.polylines, c.id, PolylineList(c.saved_point_ids)),
                          !.line_colors =
                              IF c.saved_color # None
                              THEN MapPut(m.line_colors, c.id, c.saved_color)
                              ELSE m.line_colors,
                          !.locked_lines =
                              IF c.was_locked THEN m.locked_lines \cup {c.id}
                              ELSE m.locked_lines],
                c)

\* ---- CreateCurveCommand
CreateCurveCommand(curve_id, control_point_ids, degree, num_points, color, locked) ==
    [Command EXCEPT !.type = "CreateCurve", !.id = curve_id,
                    !.point_ids = control_point_ids,
                    !.degree = degree, !.num_points = num_points,
                    !.color = color, !.locked = locked]

CreateCurveCommand_do(c, m) ==
    IF c.id \in DOMAIN m.curves THEN Result("false", m, c)
    ELSE IF Len(c.point_ids) < 2 THEN Result("false", m, c)
    ELSE IF \E i \in 1 .. Len(c.point_ids) : c.point_ids[i] \notin DOMAIN m.points
         THEN Result("false", m, c)
    ELSE IF ~({"id", "control_points", "degree", "num_points", "color"}
                 \subseteq CurveInitKeywords)
         \* Curve(id=..., control_points=..., ..., color=...) raises TypeError
         THEN Result("raise", m, c)
    ELSE LET colors == IF c.color # None
                       THEN MapPut(m.line_colors, c.id, c.color)
                       ELSE m.line_colors
             locked == IF c.locked THEN m.locked_lines \cup {c.id} ELSE m.locked_lines
         IN  Result("true",
                    [m EXCEPT !.curves = MapPut(m.curves, c.id,
                                  CurveRecord(c.point_ids, c.degree, c.num_points, TRUE)),
                              !.line_colors = colors,
                              !.locked_lines = locked],
                    c)

CreateCurveCommand_undo(c, m) ==
    IF c.id \notin DOMAIN m.curves THEN Result("false", m, c)
    ELSE Result("true", [m EXCEPT !.curves = MapDel(m.curves, c.id)], c)

\* ---- RemoveCurveCommand
RemoveCurveCommand(curve_id) ==
    [Command EXCEPT !.type = "RemoveCurve", !.id = curve_id]

RemoveCurveCommand_do(c, m) ==
    IF c.id \notin DOMAIN m.curves THEN Result("false", m, c)
    ELSE Result("true",
                [m EXCEPT !.curves = MapDel(m.curves, c.id)],
                [c EXCEPT !.saved_control_ids = m.curves[c.id].control_point_ids,
                          !.saved_degree = m.curves[c.id].degree,
                          !.saved_num_points = m.curves[c.id].num_points,
                          !.saved = TRUE,
                          !.saved_color = MapGet(m.line_colors, c.id, None),
                          !.was_locked = c.id \in m.locked_lines])

RemoveCurveCommand_undo(c, m) ==
    IF ~c.saved THEN Result("false", m, c)
    ELSE IF c.id \in DOMAIN m.curves THEN Result("false", m, c)
    ELSE Result("true",
                [m EXCEPT !.curves = MapPut(m.curves, c.id,
                              CurveRecord(c.saved_control_ids, c.saved_degree,
                                          c.saved_num_points, FALSE)),
                          !.line_colors =
                              IF c.saved_color # None
                              THEN MapPut(m.line_colors, c.id, c.saved_color)
                              ELSE m.line_colors,
                          !.locked_lines =
                              IF c.was_locked THEN m.locked_lines \cup {c.id}
                              ELSE m.locked_lines],
                c)

\* ---- CreatePlaneCommand
CreatePlaneCommand(plane_id, vertices, color, locked) ==
    [Command EXCEPT !.type = "CreatePlane", !.id = plane_id,
                    !.vertices = vertices, !.color = color, !.locked = locked]

CreatePlaneCommand_do(c, m) ==
    IF c.id \in DOMAIN m.planes THEN Result("false", m, c)
    ELSE IF Len(c.vertices) < 3 THEN Result("false", m, c)
    ELSE LET colors == IF c.id \notin DOMAIN m.plane_colors
                       THEN MapPut(m.plane_colors, c.id,
                                   IF c.color # None THEN c.color ELSE DefaultPlaneColor)
                       ELSE m.plane_colors
             locked == IF c.locked THEN m.locked_planes \cup {c.id} ELSE m.locked_planes
         IN  Result("true",
                    [m EXCEPT !.planes = MapPut(m.planes, c.id, c.vertices),
                              !.plane_colors = colors,
                              !.locked_planes = locked],
                    c)

CreatePlaneCommand_undo(c, m) ==
    IF c.id \in m.locked_planes THEN Result("false", m, c)
    ELSE IF c.id \notin DOMAIN m.planes THEN Result("false", m, c)
    ELSE Result("true",
                [m EXCEPT !.planes = MapDel(m.planes, c.id),
                          !.plane_colors = MapDel(m.plane_colors, c.id),
                          !.selected_plane_id =
                              IF m.selected_plane_id = c.id THEN None
                              ELSE m.selected_plane_id],
                c)

\* ---- RemovePlaneCommand
RemovePlaneCommand(plane_id) ==
    [Command EXCEPT !.type = "RemovePlane", !.id = plane_id]

RemovePlaneCommand_do(c, m) ==
    IF c.id \in m.locked_planes THEN Result("false", m, c)
    ELSE IF c.id \notin DOMAIN m.planes THEN Result("false", m, c)
    ELSE Result("true",
                [m EXCEPT !.planes = MapDel(m.planes, c.id),
                          !.plane_colors = MapDel(m.plane_colors, c.id),
                          !.selected_plane_id =
                              IF m.selected_plane_id = c.id THEN None
                              ELSE m.selected_plane_id],
                [c EXCEPT !.saved_vertices = m.planes[c.id],
                          !.saved = TRUE,
                          !.saved_color = MapGet(m.plane_colors, c.id, None),
                          !.was_locked = c.id \in m.locked_planes])

\* undo() of RemovePlaneCommand that forgets the saved colour
RemovePlaneCommand_undo_without_color(c, m) ==
    IF ~c.saved THEN Result("false", m, c)
    ELSE IF c.id \in DOMAIN m.planes THEN Result("false", m, c)
    ELSE Result("true",
                [m EXCEPT !.planes = MapPut(m.planes, c.id, c.saved_vertices),
                          !.locked_planes =
                              IF c.was_locked THEN m.locked_planes \cup {c.id}
                              ELSE m.locked_planes],
                c)

RemovePlaneCommand_undo(c, m) ==
    IF ~c.saved THEN Result("false", m, c)
    ELSE IF c.id \in DOMAIN m.planes THEN Result("false", m, c)
    ELSE Result("true",
                [m EXCEPT !.planes = MapPut(m.planes, c.id, c.saved_vertices),
                          !.plane_colors =
                              IF c.saved_color # None
                              THEN MapPut(m.plane_colors, c.id, c.saved_color)
                              ELSE m.plane_colors,
                          !.locked_planes =
                              IF c.was_locked THEN m.locked_planes \cup {c.id}
                              ELSE m.locked_planes],
                c)

\* ---- SetPointColorCommand, SetLineColorCommand, SetPlaneColorCommand
SetPointColorCommand(point_id, new_color, old_color) ==
    [Command EXCEPT !.type = "SetPointColor", !.id = point_id,
                    !.new_color = new_color, !.old_color = old_color]

SetPointColorCommand_do(c, m) ==
    LET old == IF c.old_color = None
               THEN MapGet(m.point_colors, c.id, DefaultPointColor)
               ELSE c.old_color
    IN  Result("true",
               [m EXCEPT !.point_colors = MapPut(m.point_colors, c.id, c.new_color)],
               [c EXCEPT !.old_color = old])

SetPointColorCommand_undo(c, m) ==
    IF c.old_color # None
    THEN Result("true",
                [m EXCEPT !.point_colors = MapPut(m.point_colors, c.id, c.old_color)], c)
    ELSE Result("false", m, c)

SetLineColorCommand(line_id, new_color, old_color) ==
    [Command EXCEPT !.type = "SetLineColor", !.id = line_id,
                    !.new_color = new_color, !.old_color = old_color]

SetLineColorCommand_do(c, m) ==
    LET old == IF c.old_color = None
               THEN MapGet(m.line_colors, c.id, DefaultLineColor)
               ELSE c.old_color
    IN  Result("true",
               [m EXCEPT !.line_colors = MapPut(m.line_colors, c.id, c.new_color)],
               [c EXCEPT !.old_color = old])

SetLineColorCommand_undo(c, m) ==
    IF c.old_color # None
    THEN Result("true",
                [m EXCEPT !.line_colors = MapPut(m.line_colors, c.id, c.old_color)], c)
    ELSE Result("false", m, c)

SetPlaneColorCommand(plane_id, new_color, old_color) ==
    [Command EXCEPT !.type = "SetPlaneColor", !.id = plane_id,
                    !.new_color = new_color, !.old_color = old_color]

SetPlaneColorCommand_do(c, m) ==
    LET old == IF c.old_color = None
               THEN MapGet(m.plane_colors, c.id, DefaultPlaneColor)
               ELSE c.old_color
    IN  Result("true",
               [m EXCEPT !.plane_colors = MapPut(m.plane_colors, c.id, c.new_color)],
               [c EXCEPT !.old_color = old])

SetPlaneColorCommand_undo(c, m) ==
    IF c.old_color # None
    THEN Result("true",
                [m EXCEPT !.plane_colors = MapPut(m.plane_colors, c.id, c.old_color)], c)
    ELSE Result("false", m, c)

\* ---- Command.do / Command.undo: dispatch on the class of the command
Command_do(c, m) ==
    CASE c.type = "CreatePoint" -> CreatePointCommand_do(c, m)
      [] c.type = "RemovePoint" -> RemovePointCommand_do(c, m)
      [] c.type = "MovePoint" -> MovePointCommand_do(c, m)
      [] c.type = "CreateLine" -> CreateLineCommand_do(c, m)
      [] c.type = "RemoveLine" -> RemoveLineCommand_do(c, m)
      [] c.type = "CreatePolyline" -> CreatePolylineCommand_do(c, m)
      [] c.type = "RemovePolyline" -> RemovePolylineCommand_do(c, m)
      [] c.type = "CreateCurve" -> CreateCurveCommand_do(c, m)
      [] c.type = "RemoveCurve" -> RemoveCurveCommand_do(c, m)
      [] c.type = "CreatePlane" -> CreatePlaneCommand_do(c, m)
      [] c.type = "RemovePlane" -> RemovePlaneCommand_do(c, m)
      [] c.type = "SetPointColor" -> SetPointColorCommand_do(c, m)
      [] c.type = "SetLineColor" -> SetLineColorCommand_do(c, m)
      [] c.type = "SetPlaneColor" -> SetPlaneColorCommand_do(c, m)

Command_undo(c, m) ==
    CASE c.type = "CreatePoint" -> CreatePointCommand_undo(c, m)
      [] c.type = "RemovePoint" -> RemovePointCommand_undo(c, m)
      [] c.type = "MovePoint" -> MovePointCommand_undo(c, m)
      [] c.type = "CreateLine" -> CreateLineCommand_undo(c, m)
      [] c.type = "RemoveLine" -> RemoveLineCommand_undo(c, m)
      [] c.type = "CreatePolyline" -> CreatePolylineCommand_undo(c, m)
      [] c.type = "RemovePolyline" -> RemovePolylineCommand_undo(c, m)
      [] c.type = "CreateCurve" -> CreateCurveCommand_undo(c, m)
      [] c.type = "RemoveCurve" -> RemoveCurveCommand_undo(c, m)
      [] c.type = "CreatePlane" -> CreatePlaneCommand_undo(c, m)
      [] c.type = "RemovePlane" -> RemovePlaneCommand_undo(c, m)
      [] c.type = "SetPointColor" -> SetPointColorCommand_undo(c, m)
      [] c.type = "SetLineColor" -> SetLineColorCommand_undo(c, m)
      [] c.type = "SetPlaneColor" -> SetPlaneColorCommand_undo(c, m)

\* ------------------------------------------------------------ UndoManager
Outcome(ret, m, u, c) == [ret |-> ret, m |-> m, u |-> u, c |-> c]

\* execute_and_push that forgets to clear the redo stack
UndoManager_execute_and_push_keeps_redo(command, m, u) ==
    LET r == Command_do(command, m)
    IN  IF r.ret = "true"
        THEN LET pushed == Append(u.undo_stack, r.c)
                 limited == IF Len(pushed) > u.max_items THEN Tail(pushed) ELSE pushed
             IN  Outcome("true", r.m, [u EXCEPT !.undo_stack = limited], r.c)
        ELSE Outcome(r.ret, r.m, u, r.c)

UndoManager_execute_and_push(command, m, u) ==
    LET r == Command_do(command, m)
    IN  IF r.ret = "true"
        THEN LET pushed == Append(u.undo_stack, r.c)
                 limited == IF Len(pushed) > u.max_items THEN Tail(pushed) ELSE pushed
             IN  Outcome("true", r.m,
                         [u EXCEPT !.undo_stack = limited, !.redo_stack = <<>>], r.c)
        ELSE Outcome(r.ret, r.m, u, r.c)

\* undo that loses the command when its undo() fails
UndoManager_undo_drops_failed(m, u) ==
    IF u.undo_stack = <<>> THEN Outcome("false", m, u, Command)
    ELSE LET command == Last(u.undo_stack)
             popped == Front(u.undo_stack)
             r == Command_undo(command, m)
         IN  IF r.ret = "true"
             THEN Outcome("true", r.m,
                          [u EXCEPT !.undo_stack = popped,
                                    !.redo_stack = Append(u.redo_stack, r.c)], r.c)
             ELSE Outcome(r.ret, r.m, [u EXCEPT !.undo_stack = popped], r.c)

\* undo that reports success on an empty stack
UndoManager_undo_empty_true(m, u) ==
    IF u.undo_stack = <<>> THEN Outcome("true", m, u, Command)
    ELSE LET command == Last(u.undo_stack)
             popped == Front(u.undo_stack)
             r == Command_undo(command, m)
         IN  IF r.ret = "true"
             THEN Outcome("true", r.m,
                          [u EXCEPT !.undo_stack = popped,
                                    !.redo_stack = Append(u.redo_stack, r.c)], r.c)
             ELSE IF r.ret = "false"
             THEN Outcome("false", r.m,
                          [u EXCEPT !.undo_stack = Append(popped, r.c)], r.c)
             ELSE Outcome("raise", r.m, [u EXCEPT !.undo_stack = popped], r.c)

UndoManager_undo(m, u) ==
    IF u.undo_stack = <<>> THEN Outcome("false", m, u, Command)
    ELSE LET command == Last(u.undo_stack)
             popped == Front(u.undo_stack)
             r == Command_undo(command, m)
         IN  IF r.ret = "true"
             THEN Outcome("true", r.m,
                          [u EXCEPT !.undo_stack = popped,
                                    !.redo_stack = Append(u.redo_stack, r.c)], r.c)
             ELSE IF r.ret = "false"
             THEN Outcome("false", r.m,
                          [u EXCEPT !.undo_stack = Append(popped, r.c)], r.c)
             ELSE Outcome("raise", r.m, [u EXCEPT !.undo_stack = popped], r.c)

\* redo that leaves the command on the redo stack as well
UndoManager_redo_keeps_entry(m, u) ==
    IF u.redo_stack = <<>> THEN Outcome("false", m, u, Command)
    ELSE LET command == Last(u.redo_stack)
             r == Command_do(command, m)
         IN  IF r.ret = "true"
             THEN Outcome("true", r.m,
                          [u EXCEPT !.undo_stack = Append(u.undo_stack, r.c)], r.c)
             ELSE Outcome(r.ret, r.m, u, r.c)

UndoManager_redo(m, u) ==
    IF u.redo_stack = <<>> THEN Outcome("false", m, u, Command)
    ELSE LET command == Last(u.redo_stack)
             popped == Front(u.redo_stack)
             r == Command_do(command, m)
         IN  IF r.ret = "true"
             THEN Outcome("true", r.m,
                          [u EXCEPT !.redo_stack = popped,
                                    !.undo_stack = Append(u.undo_stack, r.c)], r.c)
             ELSE IF r.ret = "false"
             THEN Outcome("false", r.m,
                          [u EXCEPT !.redo_stack = Append(popped, r.c)], r.c)
             ELSE Outcome("raise", r.m, [u EXCEPT !.redo_stack = popped], r.c)

RECURSIVE PopFirstWhileOver(_, _)
PopFirstWhileOver(stack, limit) ==
    IF Len(stack) > limit THEN PopFirstWhileOver(Tail(stack), limit) ELSE stack

\* set_max_items that drops the newest commands
UndoManager_set_max_items_drops_newest(n, u) ==
    [u EXCEPT !.max_items = n,
              !.undo_stack = IF Len(u.undo_stack) > n THEN SubSeq(u.undo_stack, 1, n)
                             ELSE u.undo_stack]

UndoManager_set_max_items(n, u) ==
    [u EXCEPT !.max_items = n, !.undo_stack = PopFirstWhileOver(u.undo_stack, n)]

\* ------------------------------------------------- select_at_screen_position
\* The projection of the scene through the camera (renderer.WorldToDisplay,
\* camera.GetPosition) is an input of the query: for every entity its pixel
\* distance to the click and its distance to the camera, and for a plane
\* whether the click falls inside its projected polygon.
Candidate(type, id, screen_dist, depth) ==
    [type |-> type, id |-> id, screen_dist |-> screen_dist, depth |-> depth]

\* the entries of one entity map, in the order the dict yields them, that are
\* within pixel_threshold (a plane also when the click is inside it)
gather(type, order, present, proj, pixel_threshold) ==
    LET RECURSIVE from(_)
        from(i) ==
            IF i > Len(order) THEN <<>>
            ELSE LET id == order[i]
                     p == proj[id]
                     inside == type = "plane" /\ p.inside
                     screen_dist == IF inside THEN 0 ELSE p.screen_dist
                 IN  IF id \in present /\ (inside \/ screen_dist <= pixel_threshold)
                     THEN <<Candidate(type, id, screen_dist, p.depth)>> \o from(i + 1)
                     ELSE from(i + 1)
    IN  from(1)

gather_candidates(m, point_order, proj, pixel_threshold) ==
    gather("point", point_order, DOMAIN m.points, proj, pixel_threshold)
    \o gather("line", LineNames, DOMAIN m.lines, proj, pixel_threshold)
    \o gather("plane", PlaneNames, DOMAIN m.planes, proj, pixel_threshold)

priority_order == [point |-> 0, line |-> 1, plane |-> 2]

sort_key_depth_first(x) == <<x.depth, priority_order[x.type], x.screen_dist>>

sort_key_pixels_first(x) == <<priority_order[x.type], x.screen_dist, x.depth>>

sort_key(x) == <<priority_order[x.type], x.depth, x.screen_dist>>

\* Python compares tuples lexicographically
TupleLess(a, b) ==
    \E i \in 1 .. Len(a) : a[i] < b[i] /\ \A j \in 1 .. (i - 1) : a[j] = b[j]

\* list.sort(key=...): stable, ascending
RECURSIVE list_sort(_)
list_sort(s) ==
    IF s = <<>> THEN <<>>
    ELSE LET rest == list_sort(Tail(s))
             x == Head(s)
             \* x goes before the first element of rest that is not less than it
             smaller == {i \in 1 .. Len(rest) : TupleLess(sort_key(rest[i]), sort_key(x))}
             n == Cardinality(smaller)
         IN  SubSeq(rest, 1, n) \o <<x>> \o SubSeq(rest, n + 1, Len(rest))

select_at_screen_position_keeps_line(m, cands) ==
    IF cands = <<>>
    THEN [m |-> [m EXCEPT !.selected_point_id = None,
                          !.selected_line_id = None,
                          !.selected_plane_id = None],
          ret |-> NoSelected]
    ELSE LET first == list_sort(cands)[1]
         IN  [m |-> [m EXCEPT
                       !.selected_point_id = IF first.type = "point" THEN first.id ELSE None,
                       !.selected_line_id = IF first.type = "line" THEN first.id
                                            ELSE IF first.type = "plane" THEN @ ELSE None,
                       !.selected_plane_id = IF first.type = "plane" THEN first.id ELSE None],
              ret |-> [type |-> first.type, id |-> first.id]]

select_at_screen_position_keeps_on_miss(m, cands) ==
    IF cands = <<>>
    THEN [m |-> m, ret |-> NoSelected]
    ELSE LET first == list_sort(cands)[1]
         IN  [m |-> [m EXCEPT
                       !.selected_point_id = IF first.type = "point" THEN first.id ELSE None,
                       !.selected_line_id = IF first.type = "line" THEN first.id ELSE None,
                       !.selected_plane_id = IF first.type = "plane" THEN first.id ELSE None],
              ret |-> [type |-> first.type, id |-> first.id]]

select_at_screen_position(m, cands) ==
    IF cands = <<>>
    THEN [m |-> [m EXCEPT !.selected_point_id = None,
                          !.selected_line_id = None,
                          !.selected_plane_id = None],
          ret |-> NoSelected]
    ELSE LET first == list_sort(cands)[1]
         IN  [m |-> [m EXCEPT
                       !.selected_point_id = IF first.type = "point" THEN first.id ELSE None,
                       !.selected_line_id = IF first.type = "line" THEN first.id ELSE None,
                       !.selected_plane_id = IF first.type = "plane" THEN first.id ELSE None],
              ret |-> [type |-> first.type, id |-> first.id]]

\* ------------------------------------------------------------------- Init
NoPicked == [id |-> None, color |-> None]
NoClick == [tool |-> None, pid |-> None, finalize |-> FALSE, ret |-> None,
            ids |-> <<>>, line_ids |-> <<>>, point_ids |-> <<>>]

\* LineOperator.__init__, PlaneOperator.__init__ and a view that has picked
\* nothing yet
ToolsConstructed ==
    /\ line_operator = [click_point_ids |-> <<>>,
                        curve_control_point_ids |-> <<>>,
                        polyline_control_point_ids |-> <<>>]
    /\ plane_operator = [selected_line_ids |-> <<>>, selected_point_ids |-> <<>>]
    /\ picked_point_prev = NoPicked
    /\ click = NoClick

Constructed ==
    /\ points = EmptyMap /\ lines = EmptyMap /\ planes = EmptyMap
    /\ polylines = EmptyMap /\ curves = EmptyMap
    /\ locked_points = {} /\ locked_lines = {} /\ locked_planes = {}
    /\ point_colors = EmptyMap /\ line_colors = EmptyMap /\ plane_colors = EmptyMap
    /\ selected_point_id = None /\ selected_line_id = None
    /\ selected_plane_id = None /\ active_plane_id = None
    /\ undo_stack = <<>> /\ redo_stack = <<>>
    /\ max_items = MaxLimit
    /\ call = [op |-> "init", ret |-> None, c |-> Command]
    /\ before = [m |-> Mgr, u |-> Und]
    /\ earlier = <<>>
    /\ editing_point_id = None
    /\ ToolsConstructed
    /\ candidates = <<>>
    /\ selected = NoSelected

Init == Constructed /\ session \in Sessions

\* ---------------------------------------------------------------- actions
RecordCall(op, ret, c) ==
    /\ call' = [op |-> op, ret |-> ret, c |-> c]
    /\ before' = [m |-> Mgr, u |-> Und]
    /\ earlier' = IF call.op = "execute_and_push" /\ call.ret = "true"
                  THEN <<[c |-> call.c, entities |-> Entities(before.m)]>>
                  ELSE <<>>
    /\ UNCHANGED session

\* a call that is not a selection query and not a click with a tool
Record(op, ret, c) ==
    /\ RecordCall(op, ret, c)
    /\ candidates' = <<>>
    /\ selected' = NoSelected
    /\ click' = NoClick
    /\ UNCHANGED tool_vars

\* what a call through the undo manager leaves behind
Apply(op, o) ==
    /\ SetMgr(o.m)
    /\ undo_stack' = o.u.undo_stack
    /\ redo_stack' = o.u.redo_stack
    /\ max_items' = o.u.max_items
    /\ Record(op, o.ret, o.c)
    /\ UNCHANGED editing_point_id

Push(command) == Apply("execute_and_push", UndoManager_execute_and_push(command, Mgr, Und))

add_point_object ==
    \E point_id \in EditedPointIds, position \in RawCoords, color \in ColorArgs, locked \in BOOLEAN :
        Push(CreatePointCommand(point_id, Point(position).v, color, locked))

\* add_point: a Point built from id and position carries no colour
add_point ==
    \E point_id \in PointIds, position \in RawCoords, locked \in BOOLEAN :
        Push(CreatePointCommand(point_id, Point(position).v, None, locked))

add_line ==
    \E line_id \in LineIds, ends \in LineEnds, color \in ColorArgs, locked \in BOOLEAN :
        Push(CreateLineCommand(line_id, ends[1], ends[2], color, locked))

add_polyline ==
    \E polyline_id \in PolylineIds, point_ids \in IdLists, color \in ColorArgs, locked \in BOOLEAN :
        Push(CreatePolylineCommand(polyline_id, point_ids, color, locked))

add_curve ==
    \E curve_id \in CurveIds, point_ids \in IdLists, color \in ColorArgs, locked \in BOOLEAN :
        Push(CreateCurveCommand(curve_id, point_ids, DefaultDegree, DefaultNumPoints, color, locked))

add_plane ==
    \E plane_id \in PlaneIds, vertices \in VertexLists, color \in ColorArgs, locked \in BOOLEAN :
        Push(CreatePlaneCommand(plane_id, vertices, color, locked))

set_point_color ==
    \E point_id \in EditedPointIds, color \in PickColors :
        Push(SetPointColorCommand(point_id, color,
                                  MapGet(point_colors, point_id, DefaultPointColor)))

set_line_color ==
    \E line_id \in LineIds, color \in PickColors :
        Push(SetLineColorCommand(line_id, color,
                                 MapGet(line_colors, line_id, DefaultLineColor)))

set_plane_color ==
    \E plane_id \in PlaneIds, color \in PickColors :
        Push(SetPlaneColorCommand(plane_id, color,
                                  MapGet(plane_colors, plane_id, DefaultPlaneColor)))

delete_point == \E point_id \in EditedPointIds : Push(RemovePointCommand(point_id))
delete_line == \E line_id \in LineIds : Push(RemoveLineCommand(line_id))
delete_polyline == \E polyline_id \in PolylineIds : Push(RemovePolylineCommand(polyline_id))
delete_curve == \E curve_id \in CurveIds : Push(RemoveCurveCommand(curve_id))
delete_plane == \E plane_id \in PlaneIds : Push(RemovePlaneCommand(plane_id))

undo == Apply("undo", UndoManager_undo(Mgr, Und))
redo == Apply("redo", UndoManager_redo(Mgr, Und))

set_max_items ==
    \E n \in LimitArgs :
        /\ LET u == UndoManager_set_max_items(n, Und)
           IN  /\ undo_stack' = u.undo_stack
               /\ redo_stack' = u.redo_stack
               /\ max_items' = u.max_items
        /\ Record("set_max_items", None, Command)
        /\ UNCHANGED <<mgr_vars, editing_point_id>>

\* SceneInspector: a tree item of an entity is selected
on_selection_changed ==
    \E obj_type \in {"point", "line", "plane"} :
        \E obj_id \in (CASE obj_type = "point" -> DOMAIN points
                         [] obj_type = "line" -> DOMAIN lines
                         [] obj_type = "plane" -> DOMAIN planes) :
            /\ selected_point_id' = IF obj_type = "point" THEN obj_id ELSE None
            /\ selected_line_id' = IF obj_type = "line" THEN obj_id ELSE None
            /\ selected_plane_id' = IF obj_type = "plane" THEN obj_id ELSE None
            /\ active_plane_id' = IF obj_type = "plane" THEN obj_id ELSE None
            /\ editing_point_id' = IF obj_type = "point" THEN obj_id ELSE None
            /\ Record("on_selection_changed", None, Command)
            /\ UNCHANGED <<points, lines, planes, polylines, curves,
                           locked_points, locked_lines, locked_planes,
                           point_colors, line_colors, plane_colors, undo_vars>>

\* ---- SceneInspector._apply_point_edit
\* _find_point_id_by_pos: the first point, in the iteration order of the dict,
\* whose position is close to pos; the model keeps no insertion order, the
\* action draws one
find_point_id_by_pos(m, order, pos) ==
    LET hits == {i \in 1 .. Len(order) :
                    order[i] \in DOMAIN m.points /\ m.points[order[i]].v = pos}
    IN  IF hits = {} THEN None
        ELSE order[CHOOSE i \in hits : \A j \in hits : i <= j]

\* step 2: what the handler stores for one line
apply_point_edit_line(m, order, pid, old_pos, new_pos, line) ==
    LET s == line[1]
        e == line[2]
        s_is_pid == s.kind = "str" /\ s.id = pid
        e_is_pid == e.kind = "str" /\ e.id = pid
    IN  IF s.kind = "str" \/ e.kind = "str"
        THEN IF s_is_pid \/ e_is_pid
             THEN LET direct == IF s.kind = "str" /\ s.id # pid THEN s.id
                                ELSE IF e.kind = "str" /\ e.id # pid THEN e.id
                                ELSE None
                      by_s == IF s.kind = "str" THEN None
                              ELSE find_point_id_by_pos(m, order, s.xyz)
                      by_pos == IF by_s = None /\ e.kind # "str"
                                THEN find_point_id_by_pos(m, order, e.xyz)
                                ELSE by_s
                      other_id == IF direct # None THEN direct ELSE by_pos
                  IN  IF other_id = None THEN line
                      ELSE IF s_is_pid THEN <<RefEnd(other_id), RefEnd(pid)>>
                      ELSE <<RefEnd(pid), RefEnd(other_id)>>
             ELSE line
        ELSE IF s.xyz = old_pos
             THEN LET other_id == find_point_id_by_pos(m, order, e.xyz)
                  IN  IF other_id # None THEN <<RefEnd(pid), RefEnd(other_id)>>
                      ELSE <<XyzEnd(new_pos), e>>
        ELSE IF e.xyz = old_pos
             THEN LET other_id == find_point_id_by_pos(m, order, s.xyz)
                  IN  IF other_id # None THEN <<RefEnd(other_id), RefEnd(pid)>>
                      ELSE <<s, XyzEnd(new_pos)>>
        ELSE line

\* steps 2 and 3, after the MovePointCommand succeeded: lines and planes are
\* rewritten in place, outside the history
apply_point_edit_sync(m, order, pid, old_pos, new_pos) ==
    [m EXCEPT !.lines = [lid \in DOMAIN m.lines |->
                            apply_point_edit_line(m, order, pid, old_pos, new_pos,
                                                  m.lines[lid])],
              !.planes = [plid \in DOMAIN m.planes |->
                             [i \in DOMAIN m.planes[plid] |->
                                 IF m.planes[plid][i] = old_pos THEN new_pos
                                 ELSE m.planes[plid][i]]]]

apply_point_edit ==
    /\ editing_point_id \in DOMAIN points
    /\ \E new_pos \in EditCoords, order \in PointOrders :
          LET pid == editing_point_id
              old_pos == points[pid].v
              o == UndoManager_execute_and_push(MovePointCommand(pid, old_pos, new_pos),
                                                Mgr, Und)
          IN  Apply("execute_and_push",
                    IF o.ret = "true"
                    THEN [o EXCEPT !.m = apply_point_edit_sync(o.m, order, pid,
                                                              old_pos, new_pos)]
                    ELSE o)

\* PointOperator._generate_point_id: the first id that is not in use
generate_point_id(m) ==
    LET free == {i \in 1 .. Len(PointNames) : PointNames[i] \notin DOMAIN m.points}
    IN  PointNames[CHOOSE i \in free : \A j \in free : i <= j]

\* PointOperator.create_point_at_position, with the position as snapping and
\* clamping leave it
create_point_at_position ==
    /\ DOMAIN points # PointIds
    /\ \E position \in RawCoords :
          LET point_id == generate_point_id(Mgr)
              point == Point(position)
          IN  Push(CreatePointCommand(point_id, Point(point.v).v, None, FALSE))

\* add_line between two points given by id
add_line_by_ids ==
    \E line_id \in LineIds, start \in PointIds, end \in PointIds :
        Push(CreateLineCommand(line_id, RefEnd(start), RefEnd(end), None, FALSE))

\* ---- EventHandler._try_select_edit_object: a click in edit mode
try_select_edit_object ==
    \E point_order \in PointOrders,
       on_points \in [DOMAIN points -> PointProjections],
       on_lines \in [DOMAIN lines -> LineProjections],
       on_planes \in [DOMAIN planes \ locked_planes -> PlaneProjections],
       on_boundary \in [DOMAIN planes \cap locked_planes -> BoundaryPlaneProjections] :
        LET cands == gather_candidates(Mgr, point_order,
                                       on_points @@ on_lines @@ on_planes @@ on_boundary,
                                       PixelThreshold)
            o == select_at_screen_position(Mgr, cands)
            m == IF o.ret = NoSelected THEN o.m
                 ELSE [o.m EXCEPT !.selected_point_id =
                                      IF o.ret.type = "point" THEN o.ret.id ELSE None]
        IN  /\ SetMgr(m)
            /\ candidates' = cands
            /\ selected' = o.ret
            /\ RecordCall("select_at_screen_position", o.ret.id, Command)
            /\ click' = NoClick
            /\ UNCHANGED <<undo_vars, editing_point_id, tool_vars>>

\* ---- InteractiveView.pick_point_at_screen: the point under the click, if
\* any; the highlight of the previous pick is undone and the point is made
\* yellow, both through set_point_color
set_point_color_of(m, u, point_id, color) ==
    UndoManager_execute_and_push(
        SetPointColorCommand(point_id, color,
                             MapGet(m.point_colors, point_id, DefaultPointColor)),
        m, u)

pick_point_at_screen(m, u, prev, pid) ==
    IF pid = None THEN [m |-> m, u |-> u, prev |-> prev, pid |-> None]
    ELSE LET restored == IF prev # NoPicked
                         THEN set_point_color_of(m, u, prev.id, prev.color)
                         ELSE Outcome("true", m, u, Command)
             orig_color == MapGet(restored.m.point_colors, pid, DefaultPointColor)
             lit == set_point_color_of(restored.m, restored.u, pid, "yellow")
         IN  [m |-> lit.m, u |-> lit.u,
              prev |-> [id |-> pid, color |-> orig_color], pid |-> pid]

\* the first name of the list that is not a key
first_unused(names, keys) ==
    names[CHOOSE i \in 1 .. Len(names) :
              /\ names[i] \notin keys
              /\ \A j \in 1 .. (i - 1) : names[j] \in keys]

\* the result of a tool handler: the manager, the undo manager, the operator
\* and what the handler returned ("raise" when an exception left it)
Handled(m, u, op, ret) == [m |-> m, u |-> u, op |-> op, ret |-> ret]

\* ---- LineOperator._generate_polyline_from_control_points
generate_polyline_from_control_points(m, u, lo) ==
    LET control_ids == lo.polyline_control_point_ids
        cleared == [lo EXCEPT !.polyline_control_point_ids = <<>>]
    IN  IF Len(control_ids) < 2 THEN Handled(m, u, cleared, None)
        ELSE LET polyline_id == first_unused(PolylineNames, DOMAIN m.polylines)
                 o == UndoManager_execute_and_push(
                          CreatePolylineCommand(polyline_id, control_ids, None, FALSE), m, u)
             IN  Handled(o.m, o.u, cleared,
                         CASE o.ret = "true" -> polyline_id
                           [] o.ret = "false" -> None
                           [] OTHER -> "raise")

\* ---- LineOperator.handle_polyline_click, after the pick
handle_polyline_click(m, u, lo, pid, finalize) ==
    IF pid = None
    THEN IF finalize /\ Len(lo.polyline_control_point_ids) >= 2
         THEN generate_polyline_from_control_points(m, u, lo)
         ELSE Handled(m, u, lo, None)
    ELSE LET ids == lo.polyline_control_point_ids
             fresh == ids = <<>> \/ Last(ids) # pid
             added == IF fresh THEN [lo EXCEPT !.polyline_control_point_ids = Append(ids, pid)]
                      ELSE lo
             o == IF fresh THEN set_point_color_of(m, u, pid, "yellow")
                  ELSE Outcome("true", m, u, Command)
         IN  IF finalize
             THEN IF Len(added.polyline_control_point_ids) >= 2
                  THEN generate_polyline_from_control_points(o.m, o.u, added)
                  ELSE Handled(o.m, o.u,
                               [added EXCEPT !.polyline_control_point_ids = <<>>], None)
             ELSE Handled(o.m, o.u, added, None)

\* ---- LineOperator._generate_curve_from_control_points: add_curve, and
\* add_polyline when add_curve raised; an exception of either is swallowed
generate_curve_from_control_points(m, u, lo) ==
    LET control_ids == lo.curve_control_point_ids
        cleared == [lo EXCEPT !.curve_control_point_ids = <<>>]
        present == {i \in 1 .. Len(control_ids) : control_ids[i] \in DOMAIN m.points}
    IN  IF Len(control_ids) < 2 THEN Handled(m, u, cleared, None)
        ELSE IF Cardinality(present) < 2 THEN Handled(m, u, cleared, None)
        ELSE LET curve_id == first_unused(CurveNames, DOMAIN m.curves)
                 o == UndoManager_execute_and_push(
                          CreateCurveCommand(curve_id, control_ids, 3, 20, None, FALSE), m, u)
             IN  IF o.ret # "raise" THEN Handled(o.m, o.u, cleared, curve_id)
                 ELSE LET poly_id == curve_id \o "_poly"
                          f == UndoManager_execute_and_push(
                                   CreatePolylineCommand(poly_id, control_ids, None, FALSE),
                                   o.m, o.u)
                      IN  Handled(f.m, f.u, cleared,
                                  IF f.ret # "raise" THEN poly_id ELSE None)

\* ---- LineOperator.handle_curve_click, after the pick
handle_curve_click(m, u, lo, pid, finalize) ==
    IF pid = None
    THEN IF finalize /\ Len(lo.curve_control_point_ids) >= 3
         THEN generate_curve_from_control_points(m, u, lo)
         ELSE Handled(m, u, lo, None)
    ELSE LET ids == lo.curve_control_point_ids
             fresh == ids = <<>> \/ Last(ids) # pid
             added == IF fresh THEN [lo EXCEPT !.curve_control_point_ids = Append(ids, pid)]
                      ELSE lo
             o == IF fresh THEN set_point_color_of(m, u, pid, "cyan")
                  ELSE Outcome("true", m, u, Command)
         IN  IF finalize
             THEN IF Len(added.curve_control_point_ids) >= 3
                  THEN generate_curve_from_control_points(o.m, o.u, added)
                  ELSE Handled(o.m, o.u,
                               [added EXCEPT !.curve_control_point_ids = <<>>], None)
             ELSE Handled(o.m, o.u, added, None)

\* what a click with a tool of the line operator leaves behind
LineToolClick(tool, pid, finalize, ids_before, picked, h) ==
    /\ SetMgr(h.m)
    /\ undo_stack' = h.u.undo_stack
    /\ redo_stack' = h.u.redo_stack
    /\ max_items' = h.u.max_items
    /\ line_operator' = h.op
    /\ picked_point_prev' = picked.prev
    /\ click' = [NoClick EXCEPT !.tool = tool, !.pid = pid, !.finalize = finalize,
                                !.ret = h.ret, !.ids = ids_before]
    /\ RecordCall(tool, h.ret, Command)
    /\ candidates' = <<>>
    /\ selected' = NoSelected
    /\ UNCHANGED <<plane_operator, editing_point_id>>

\* ---- EventHandler._try_create_polyline: a left click or a right click
\* (finalize) with the polyline tool
try_create_polyline ==
    \E pid \in DOMAIN points \cup {None}, finalize \in BOOLEAN :
        /\ finalize \/ Len(line_operator.polyline_control_point_ids) < MaxControlPoints
        /\ \E picked \in {pick_point_at_screen(Mgr, Und, picked_point_prev, pid)} :
           \E h \in {handle_polyline_click(picked.m, picked.u, line_operator,
                                           pid, finalize)} :
               LineToolClick("polyline", pid, finalize,
                             line_operator.polyline_control_point_ids, picked, h)

\* ---- EventHandler._try_create_curve
try_create_curve ==
    \E pid \in DOMAIN points \cup {None}, finalize \in BOOLEAN :
        /\ finalize \/ Len(line_operator.curve_control_point_ids) < MaxControlPoints
        /\ \E picked \in {pick_point_at_screen(Mgr, Und, picked_point_prev, pid)} :
           \E h \in {handle_curve_click(picked.m, picked.u, line_operator,
                                        pid, finalize)} :
               LineToolClick("curve", pid, finalize,
                             line_operator.curve_control_point_ids, picked, h)

\* ---- EventHandler.mouse_press_event with the line tool: no branch handles
\* the tool, a left click falls through to EventHandler._try_select_object,
\* which looks up the actor under the cursor and stores nothing. click.ids is
\* the point clicked with the line tool before this click.
try_select_object ==
    \E pid \in DOMAIN points \cup {None} :
        /\ click' = [NoClick EXCEPT !.tool = "line", !.pid = pid,
                                    !.ids = IF click.tool # "line" THEN <<>>
                                            ELSE IF click.pid # None THEN <<click.pid>>
                                            ELSE click.ids]
        /\ RecordCall("line", None, Command)
        /\ candidates' = <<>>
        /\ selected' = NoSelected
        /\ UNCHANGED <<mgr_vars, undo_vars, tool_vars, editing_point_id>>

\* ---- EditModeManager._render_line: the two positions the line is drawn
\* between; an endpoint stored as a point id is looked up in the points map
\* when the line is drawn ("raise": the id does not resolve and
\* numpy.array(<id>) raises in the handler of the KeyError)
render_line(m, line_id) ==
    LET position(e) == IF e.kind = "str" THEN m.points[e.id].v ELSE e.xyz
        dangling(e) == e.kind = "str" /\ e.id \notin DOMAIN m.points
        start == m.lines[line_id][1]
        end == m.lines[line_id][2]
    IN  IF dangling(start) \/ dangling(end)
        THEN [ret |-> "raise", start_pos |-> -1, end_pos |-> -1]
        ELSE [ret |-> None, start_pos |-> position(start), end_pos |-> position(end)]

\* ---- the plane tool
\* numpy.allclose(a, b, atol=tol) with the default rtol of 1e-5:
\* |a - b| <= tol + 1e-5 * |b|. Coordinates are thousandths, tol is in 1e-8.
allclose(a, b, tol) ==
    LET abs(x) == IF x < 0 THEN 0 - x ELSE x
    IN  abs(a - b) * 100000 <= tol + abs(b)

ChainTol == 10000      \* _build_polygon_vertices: tol = 1e-4
PointsTol == 1000      \* _build_polygon_from_points: tol = 1e-5

\* what a polygon builder returns: an array of vertices, None, or "raise"
\* when an exception left it
Polygon(vertices) == [ret |-> "ndarray", vertices |-> vertices]
NoPolygon == [ret |-> None, vertices |-> <<>>]
PolygonRaised == [ret |-> "raise", vertices |-> <<>>]

\* a chain builder that takes every line as stored
build_polygon_vertices_no_reversal(m, line_ids) ==
    LET position(e) == IF e.kind = "str" THEN m.points[e.id].v ELSE e.xyz
        dangling(e) == e.kind = "str" /\ e.id \notin DOMAIN m.points
        n == Len(line_ids)
        ends == [i \in 1 .. n |-> <<position(m.lines[line_ids[i]][1]),
                                    position(m.lines[line_ids[i]][2])>>]
        RECURSIVE chain(_, _, _)
        chain(ok, vertices, i) ==
            IF ~ok \/ i > n THEN [ok |-> ok, vertices |-> vertices]
            ELSE IF allclose(ends[i][1], Last(vertices), ChainTol)
                 THEN chain(TRUE, Append(vertices, ends[i][2]), i + 1)
            ELSE chain(FALSE, vertices, i)
    IN  IF line_ids = <<>> THEN NoPolygon
        ELSE IF \E i \in 1 .. n : line_ids[i] \notin DOMAIN m.lines THEN NoPolygon
        ELSE IF \E i \in 1 .. n : dangling(m.lines[line_ids[i]][1])
                                     \/ dangling(m.lines[line_ids[i]][2])
             THEN PolygonRaised
        ELSE LET c == chain(TRUE, <<ends[1][1], ends[1][2]>>, 2)
             IN  IF ~c.ok THEN NoPolygon
                 ELSE IF ~allclose(Last(c.vertices), c.vertices[1], ChainTol) THEN NoPolygon
                 ELSE IF Len(c.vertices) - 1 < 3 THEN NoPolygon
                 ELSE Polygon(Front(c.vertices))

\* ---- PlaneOperator._build_polygon_vertices: the first line is taken as
\* stored, each later line is appended in the direction that continues the
\* chain, and the chain has to end where it started
build_polygon_vertices(m, line_ids) ==
    LET position(e) == IF e.kind = "str" THEN m.points[e.id].v ELSE e.xyz
        dangling(e) == e.kind = "str" /\ e.id \notin DOMAIN m.points
        n == Len(line_ids)
        ends == [i \in 1 .. n |-> <<position(m.lines[line_ids[i]][1]),
                                    position(m.lines[line_ids[i]][2])>>]
        RECURSIVE chain(_, _, _)
        chain(ok, vertices, i) ==
            IF ~ok \/ i > n THEN [ok |-> ok, vertices |-> vertices]
            ELSE IF allclose(ends[i][1], Last(vertices), ChainTol)
                 THEN chain(TRUE, Append(vertices, ends[i][2]), i + 1)
            ELSE IF allclose(ends[i][2], Last(vertices), ChainTol)
                 \* the line is taken in the reverse direction
                 THEN chain(TRUE, Append(vertices, ends[i][1]), i + 1)
            ELSE chain(FALSE, vertices, i)
    IN  IF line_ids = <<>> THEN NoPolygon
        ELSE IF \E i \in 1 .. n : line_ids[i] \notin DOMAIN m.lines THEN NoPolygon
        \* a point id that no longer resolves: numpy.array(<id>) raises
        ELSE IF \E i \in 1 .. n : dangling(m.lines[line_ids[i]][1])
                                     \/ dangling(m.lines[line_ids[i]][2])
             THEN PolygonRaised
        ELSE LET c == chain(TRUE, <<ends[1][1], ends[1][2]>>, 2)
             IN  IF ~c.ok THEN NoPolygon
                 ELSE IF ~allclose(Last(c.vertices), c.vertices[1], ChainTol) THEN NoPolygon
                 ELSE IF Len(c.vertices) - 1 < 3 THEN NoPolygon
                 ELSE Polygon(Front(c.vertices))

\* ---- PlaneOperator._build_polygon_from_points: the distinct positions of
\* the points, sorted by their angle around the centroid in the fitted plane.
\* The positions of the model lie on one axis x: the fitted normal n is
\* orthogonal to it, ref is the x axis, u = n x ref has no x component and
\* v = n x u = -ref, so a point projects to (0, -(x - centroid)) and its angle
\* is -pi/2 right of the centroid and +pi/2 left of it (0 stands for a point on
\* the centroid). numpy.argsort's default sort is not stable: points of equal
\* angle follow in any order, so the operator yields the set of outcomes.
build_polygon_from_points(m, point_ids) ==
    IF \E i \in 1 .. Len(point_ids) : point_ids[i] \notin DOMAIN m.points
    THEN {NoPolygon}
    ELSE LET RECURSIVE distinct(_, _)
             distinct(pts, i) ==
                 IF i > Len(point_ids) THEN pts
                 ELSE LET pos == m.points[point_ids[i]].v
                      IN  IF \E k \in 1 .. Len(pts) : allclose(pos, pts[k], PointsTol)
                          THEN distinct(pts, i + 1)
                          ELSE distinct(Append(pts, pos), i + 1)
             pts == distinct(<<>>, 1)
             n == Len(pts)
             RECURSIVE sum(_)
             sum(i) == IF i > n THEN 0 ELSE pts[i] + sum(i + 1)
             angle(p) == IF p * n > sum(1) THEN -1 ELSE IF p * n < sum(1) THEN 1 ELSE 0
             orders == {o \in [1 .. n -> 1 .. n] :
                            /\ \A i, j \in 1 .. n : i # j => o[i] # o[j]
                            /\ \A i, j \in 1 .. n :
                                   i < j => angle(pts[o[i]]) <= angle(pts[o[j]])}
         IN  IF n < 3 THEN {NoPolygon}
             ELSE {Polygon([i \in 1 .. n |-> pts[o[i]]]) : o \in orders}

\* model.geometry.Plane(id, vertices): the vertices rounded to 2 decimals, as
\* every entity of the data model stores its coordinates; no colour is given
Plane(id, vertices) ==
    [id |-> id,
     vertices |-> [i \in 1 .. Len(vertices) |-> round_to_2_decimals(vertices[i])],
     color |-> None, locked |-> FALSE]

\* ---- PlaneOperator.reset
reset(po) == [po EXCEPT !.selected_line_ids = <<>>, !.selected_point_ids = <<>>]

\* ---- PlaneOperator.add_selection, after select_at_screen_position
add_selection(po, sel) ==
    LET in(s, x) == \E i \in 1 .. Len(s) : s[i] = x
    IN  IF sel = NoSelected THEN [op |-> po, ret |-> "false"]
        ELSE IF sel.type = "line"
             THEN IF in(po.selected_line_ids, sel.id) THEN [op |-> po, ret |-> "false"]
                  ELSE [op |-> [po EXCEPT !.selected_line_ids = Append(@, sel.id)],
                        ret |-> "true"]
        ELSE IF sel.type = "point"
             THEN IF in(po.selected_point_ids, sel.id) THEN [op |-> po, ret |-> "false"]
                  ELSE [op |-> [po EXCEPT !.selected_point_ids = Append(@, sel.id)],
                        ret |-> "true"]
        ELSE [op |-> po, ret |-> "false"]

\* the plane of a polygon: _generate_plane_id, Plane(...) and add_plane; the
\* selection is reset only when add_plane succeeded
plane_of_polygon(m, u, po, vertices) ==
    LET plane_id == first_unused(PlaneToolNames, DOMAIN m.planes)
        plane_obj == Plane(plane_id, vertices)
        o == UndoManager_execute_and_push(
                 CreatePlaneCommand(plane_id, plane_obj.vertices, plane_obj.color, FALSE),
                 m, u)
    IN  IF o.ret = "true" THEN Handled(o.m, o.u, reset(po), plane_id)
        ELSE Handled(o.m, o.u, po, IF o.ret = "false" THEN None ELSE "raise")

\* ---- PlaneOperator.finalize_plane: the chain of the selected lines first,
\* then the selected points (by_points is what _build_polygon_from_points
\* returns for them); a finalize that creates nothing keeps the selection
finalize_plane(m, u, po, by_points) ==
    LET by_lines == IF Len(po.selected_line_ids) >= 3
                    THEN build_polygon_vertices(m, po.selected_line_ids)
                    ELSE NoPolygon
    IN  IF by_lines.ret = "raise" THEN Handled(m, u, po, "raise")
        ELSE IF by_lines.ret = "ndarray" /\ Len(by_lines.vertices) >= 3
             THEN plane_of_polygon(m, u, po, by_lines.vertices)
        ELSE IF /\ Len(po.selected_point_ids) >= 3
                /\ by_points.ret = "ndarray" /\ Len(by_points.vertices) >= 3
             THEN plane_of_polygon(m, u, po, by_points.vertices)
        ELSE Handled(m, u, po, None)

\* what a click with the plane tool leaves behind
PlaneToolClick(target, finalize, cands, sel, h) ==
    /\ SetMgr(h.m)
    /\ undo_stack' = h.u.undo_stack
    /\ redo_stack' = h.u.redo_stack
    /\ max_items' = h.u.max_items
    /\ plane_operator' = h.op
    /\ click' = [NoClick EXCEPT !.tool = "plane", !.pid = target, !.finalize = finalize,
                                !.ret = h.ret,
                                !.line_ids = plane_operator.selected_line_ids,
                                !.point_ids = plane_operator.selected_point_ids]
    /\ RecordCall("plane", h.ret, Command)
    /\ candidates' = cands
    /\ selected' = sel
    /\ UNCHANGED <<line_operator, picked_point_prev, editing_point_id>>

\* ---- EventHandler._try_select_for_plane: a left click with the plane tool,
\* on a point, on a line, on a plane or on empty space
try_select_for_plane ==
    \E target \in DOMAIN points \cup DOMAIN lines \cup DOMAIN planes \cup {None} :
        /\ \E i \in 1 .. Len(PlaneToolNames) : PlaneToolNames[i] \notin DOMAIN planes
        /\ Len(plane_operator.selected_line_ids)
             + Len(plane_operator.selected_point_ids) < MaxSelected
        /\ LET type == IF target \in DOMAIN points THEN "point"
                       ELSE IF target \in DOMAIN lines THEN "line" ELSE "plane"
               cands == IF target = None THEN <<>>
                        ELSE <<Candidate(type, target, 0, 1)>>
           IN  \E o \in {select_at_screen_position(Mgr, cands)} :
               \E a \in {add_selection(plane_operator, o.ret)} :
                   PlaneToolClick(target, FALSE, cands, o.ret,
                                  Handled(o.m, Und, a.op, a.ret))

\* ---- EventHandler._try_finalize_plane: a right click with the plane tool
try_finalize_plane ==
    \E by_points \in build_polygon_from_points(Mgr, plane_operator.selected_point_ids) :
        /\ \E i \in 1 .. Len(PlaneToolNames) : PlaneToolNames[i] \notin DOMAIN planes
        /\ \E h \in {finalize_plane(Mgr, Und, plane_operator, by_points)} :
               PlaneToolClick(None, TRUE, <<>>, NoSelected, h)

\* --------------------------------------------------------- specifications
\* editing sessions that work on one category of entity
NextPoint ==
    \/ add_point_object
    \/ delete_point
    \/ set_point_color
    \/ on_selection_changed
    \/ undo
    \/ redo
    \/ set_max_items

NextLine ==
    \/ add_line
    \/ delete_line
    \/ set_line_color
    \/ on_selection_changed
    \/ undo
    \/ redo
    \/ set_max_items

NextPlane ==
    \/ add_plane
    \/ delete_plane
    \/ set_plane_color
    \/ on_selection_changed
    \/ undo
    \/ redo
    \/ set_max_items

NextCurve ==
    \/ add_point
    \/ add_polyline
    \/ add_curve
    \/ delete_polyline
    \/ delete_curve
    \/ undo
    \/ redo

\* a session in the scene inspector: points, the lines between them, and the
\* coordinate editor
NextInspector ==
    \/ create_point_at_position
    \/ add_line_by_ids
    \/ delete_point
    \/ on_selection_changed
    \/ apply_point_edit
    \/ undo
    \/ redo

Next ==
    \/ session = "point" /\ NextPoint
    \/ session = "line" /\ NextLine
    \/ session = "plane" /\ NextPlane
    \/ session = "curve" /\ NextCurve

Spec == Init /\ [][Next]_vars

\* the scene inspector over points and the lines between them
InitInspector == Constructed /\ session = "inspector"
SpecInspector == InitInspector /\ [][NextInspector]_vars

\* points that may be locked, recoloured and edited in the inspector
NextLocked ==
    \/ add_point
    \/ set_point_color
    \/ on_selection_changed
    \/ apply_point_edit
    \/ undo
    \/ redo

\* a session with the select tool: clicks in the viewport and selections in
\* the inspector, on a scene that the creation tools built before
NextSelect ==
    \/ try_select_edit_object
    \/ on_selection_changed
    \/ undo
    \/ redo

\* the calls that built the scene: two points from the point tool, a line
\* between two positions and a plane
SceneScript ==
    <<CreatePointCommand("p1", Point(Point(1234).v).v, None, FALSE),
      CreatePointCommand("p2", Point(Point(1234).v).v, None, FALSE),
      CreateLineCommand("l1", XyzEnd(0), XyzEnd(1234), None, FALSE),
      CreatePlaneCommand("plane_1", <<0, 1234, 2000>>, None, FALSE)>>

RECURSIVE Built(_, _)
Built(script, o) ==
    IF script = <<>> THEN o
    ELSE Built(Tail(script), UndoManager_execute_and_push(Head(script), o.m, o.u))

InitTool(script, tools) ==
    /\ session \in tools
    /\ LET empty == [m |-> [points |-> EmptyMap, lines |-> EmptyMap, planes |-> EmptyMap,
                            polylines |-> EmptyMap, curves |-> EmptyMap,
                            locked_points |-> {}, locked_lines |-> {}, locked_planes |-> {},
                            point_colors |-> EmptyMap, line_colors |-> EmptyMap,
                            plane_colors |-> EmptyMap,
                            selected_point_id |-> None, selected_line_id |-> None,
                            selected_plane_id |-> None, active_plane_id |-> None],
                      u |-> [undo_stack |-> <<>>, redo_stack |-> <<>>,
                             max_items |-> MaxLimit]]
           o == Built(script, empty)
       IN  /\ points = o.m.points /\ lines = o.m.lines /\ planes = o.m.planes
           /\ polylines = o.m.polylines /\ curves = o.m.curves
           /\ locked_points = o.m.locked_points /\ locked_lines = o.m.locked_lines
           /\ locked_planes = o.m.locked_planes
           /\ point_colors = o.m.point_colors /\ line_colors = o.m.line_colors
           /\ plane_colors = o.m.plane_colors
           /\ selected_point_id = o.m.selected_point_id
           /\ selected_line_id = o.m.selected_line_id
           /\ selected_plane_id = o.m.selected_plane_id
           /\ active_plane_id = o.m.active_plane_id
           /\ undo_stack = o.u.undo_stack /\ redo_stack = o.u.redo_stack
           /\ max_items = o.u.max_items
           /\ call = [op |-> "init", ret |-> None, c |-> Command]
           /\ before = [m |-> o.m, u |-> o.u]
           /\ earlier = <<>>
           /\ editing_point_id = None
           /\ ToolsConstructed
           /\ candidates = <<>>
           /\ selected = NoSelected

InitScene(script) == InitTool(script, {"edit_select"})

InitSelect == InitScene(SceneScript)
SpecSelect == InitSelect /\ [][NextSelect]_vars

\* a scene inside the bounding box: a face of the box, added locked when the
\* view is constructed, then a point, a line and a plane of the user
BoundaryScript ==
    <<CreatePlaneCommand("boundary_plane_0", <<0, 1234, 2000>>, "gray", TRUE),
      CreatePointCommand("p1", Point(Point(1234).v).v, None, FALSE),
      CreateLineCommand("l1", XyzEnd(0), XyzEnd(1234), None, FALSE),
      CreatePlaneCommand("plane_1", <<0, 1234, 2000>>, None, FALSE)>>

\* sessions with the polyline tool, the curve tool and the line tool, on two
\* points
PointsScript ==
    <<CreatePointCommand("p1", Point(Point(1234).v).v, None, FALSE),
      CreatePointCommand("p2", Point(Point(1234).v).v, None, FALSE)>>

NextLineTools ==
    \/ session = "polyline" /\ try_create_polyline
    \/ session = "curve" /\ try_create_curve
    \/ session = "line" /\ try_select_object
    \/ undo
    \/ redo

InitLineTools == InitTool(PointsScript, {"polyline", "curve", "line"})
SpecLineTools == InitLineTools /\ [][NextLineTools]_vars

\* a session with the plane tool on four points and the four lines between
\* them, three stored by point id and one by coordinates
PlaneToolScript ==
    <<CreatePointCommand("A", Point(0).v, None, FALSE),
      CreatePointCommand("B", Point(1000).v, None, FALSE),
      CreatePointCommand("C", Point(3000).v, None, FALSE),
      CreatePointCommand("D", Point(7000).v, None, FALSE),
      CreateLineCommand("l1", RefEnd("A"), RefEnd("B"), None, FALSE),
      CreateLineCommand("l2", RefEnd("C"), RefEnd("B"), None, FALSE),
      CreateLineCommand("l3", RefEnd("C"), RefEnd("D"), None, FALSE),
      CreateLineCommand("l4", XyzEnd(0), XyzEnd(7000), None, FALSE)>>

NextPlaneTool ==
    \/ try_select_for_plane
    \/ try_finalize_plane

InitPlaneTool == InitTool(PlaneToolScript, {"plane"})
SpecPlaneTool == InitPlaneTool /\ [][NextPlaneTool]_vars

InitBoundary == InitScene(BoundaryScript)
SpecBoundary == InitBoundary /\ [][NextSelect]_vars

InitLocked == Constructed /\ session = "locked"
SpecLocked == InitLocked /\ [][NextLocked]_vars

C2_Undo ==
    (call.op = "undo" /\ before.u.undo_stack # <<>>) =>
        LET top == Last(before.u.undo_stack)
        IN  /\ call.ret = Command_undo(top, before.m).ret
            /\ call.ret = "true" =>
                   /\ undo_stack = Front(before.u.undo_stack)
                   /\ redo_stack = Append(before.u.redo_stack, top)
            /\ call.ret = "false" =>
                   /\ undo_stack = before.u.undo_stack
                   /\ redo_stack = before.u.redo_stack

C2_Witness ==
    /\ call.op = "undo" /\ call.ret = "false"
    /\ Len(before.u.undo_stack) >= 2

C4_Underflow ==
    (\/ call.op = "undo" /\ before.u.undo_stack = <<>>
     \/ call.op = "redo" /\ before.u.redo_stack = <<>>) =>
        /\ call.ret = "false"
        /\ Mgr = before.m
        /\ Und = before.u

C4_Witness ==
    /\ call.op = "undo" /\ before.u.undo_stack = <<>>
    /\ before.u.redo_stack # <<>>
    /\ Entities(Mgr) # Entities([Mgr EXCEPT !.lines = EmptyMap, !.points = EmptyMap,
                                            !.planes = EmptyMap])
    /\ Selection(Mgr) # <<None, None, None, None>>

\* C5: in every state reached by execute_and_push, undo, redo and
\* set_max_items the undo stack holds at most max_items commands.
C5_Bounded == Len(undo_stack) <= max_items

C5_Witness ==
    /\ call.op = "redo" /\ call.ret = "true"
    /\ Len(before.u.undo_stack) = before.u.max_items

C7_CreateRoundTrip ==
    (/\ call.op = "undo" /\ earlier # <<>>
     /\ earlier[1].c.type \in {"CreatePoint", "CreateLine", "CreatePolyline",
                               "CreateCurve", "CreatePlane"}) =>
        Entities(Mgr) = earlier[1].entities

C7_Witness ==
    /\ call.op = "undo" /\ earlier # <<>>
    /\ earlier[1].c.type = "CreateLine" /\ earlier[1].c.locked
    /\ call.ret = "false"
    /\ "l1" \in DOMAIN lines /\ "l1" \notin DOMAIN earlier[1].entities[2]

C9_DuplicateCreate ==
    (/\ call.op = "execute_and_push"
     /\ \/ call.c.type = "CreatePoint" /\ call.c.id \in DOMAIN before.m.points
        \/ call.c.type = "CreateLine" /\ call.c.id \in DOMAIN before.m.lines
        \/ call.c.type = "CreatePlane" /\ call.c.id \in DOMAIN before.m.planes) =>
        /\ call.ret = "false"
        /\ Entities(Mgr) = Entities(before.m)
        /\ Und = before.u

C9_Witness ==
    /\ call.op = "execute_and_push" /\ call.c.type = "CreatePoint"
    /\ call.c.id \in DOMAIN before.m.points
    /\ call.c.color # before.m.point_colors[call.c.id]
    /\ call.c.locked # (call.c.id \in before.m.locked_points)
    /\ before.u.redo_stack # <<>>

\* C11: RemovePoint, RemoveLine and RemovePlane on an id in the locked set of
\* its category return false from do(), leave entities, colours, locked sets
\* and the selection unchanged, and push nothing on the undo stack.
C11_RemoveLocked ==
    (/\ call.op = "execute_and_push"
     /\ \/ call.c.type = "RemovePoint" /\ call.c.id \in before.m.locked_points
        \/ call.c.type = "RemoveLine" /\ call.c.id \in before.m.locked_lines
        \/ call.c.type = "RemovePlane" /\ call.c.id \in before.m.locked_planes) =>
        /\ call.ret = "false"
        /\ Mgr = before.m
        /\ Und = before.u

C11_Witness ==
    /\ call.op = "execute_and_push" /\ call.c.type = "RemoveLine"
    /\ call.c.id \in before.m.locked_lines
    /\ call.c.id \in DOMAIN before.m.lines
    /\ before.m.selected_line_id = call.c.id
    /\ before.u.redo_stack # <<>>

\* C12: a MovePointCommand on a locked point and a SetPointColor, SetLineColor
\* or SetPlaneColor command on a locked point, line or plane return false from
\* do(), leave position and colour unchanged, and are not pushed on the undo
\* stack.
C12_LockedImmutable ==
    (/\ call.op = "execute_and_push"
     /\ \/ call.c.type \in {"MovePoint", "SetPointColor"}
           /\ call.c.id \in before.m.locked_points
        \/ call.c.type = "SetLineColor" /\ call.c.id \in before.m.locked_lines
        \/ call.c.type = "SetPlaneColor" /\ call.c.id \in before.m.locked_planes) =>
        /\ call.ret = "false"
        /\ points = before.m.points
        /\ point_colors = before.m.point_colors
        /\ line_colors = before.m.line_colors
        /\ plane_colors = before.m.plane_colors
        /\ Und = before.u

C12_Witness ==
    /\ call.op = "execute_and_push" /\ call.c.type = "MovePoint"
    /\ call.c.id \in before.m.locked_points
    /\ call.ret = "true"
    /\ points[call.c.id].v # before.m.points[call.c.id].v
    /\ Last(undo_stack) = call.c

\* C13: a point, line or plane whose id is in its locked set is never
\* destroyed: no command, undo() or redo() (the undo of the command that
\* created it with locked=true included) removes it from its entity map.
C13_LockedNeverDestroyed ==
    /\ \A id \in before.m.locked_points \cap DOMAIN before.m.points : id \in DOMAIN points
    /\ \A id \in before.m.locked_lines \cap DOMAIN before.m.lines : id \in DOMAIN lines
    /\ \A id \in before.m.locked_planes \cap DOMAIN before.m.planes : id \in DOMAIN planes

C13_Witness ==
    /\ call.op = "undo" /\ call.ret = "true"
    /\ call.c.type = "CreatePoint" /\ call.c.locked
    /\ call.c.id \in before.m.locked_points
    /\ call.c.id \in DOMAIN before.m.points
    /\ call.c.id \notin DOMAIN points

\* C14: in every state reached by create, remove and move commands with
\* undo() and redo(), every point id used as a line endpoint, as a polyline
\* point or as a curve control point is a key of the points map.
C14_NoDanglingReference ==
    /\ \A lid \in DOMAIN lines : \A i \in 1 .. 2 :
           lines[lid][i].kind = "str" => lines[lid][i].id \in DOMAIN points
    /\ \A id \in DOMAIN polylines : \A i \in DOMAIN polylines[id].items :
           polylines[id].form = "dict" => polylines[id].items[i] \in DOMAIN points
    /\ \A id \in DOMAIN curves : \A i \in DOMAIN curves[id].control_point_ids :
           curves[id].control_point_ids[i] \in DOMAIN points

C14_Witness ==
    /\ call.op = "execute_and_push" /\ call.c.type = "RemovePoint" /\ call.ret = "true"
    /\ \A lid \in DOMAIN before.m.lines : \A i \in 1 .. 2 :
           /\ before.m.lines[lid][i].kind = "str"
           /\ before.m.lines[lid][i].id \in DOMAIN before.m.points
    /\ \E lid \in DOMAIN lines : \E i \in 1 .. 2 : lines[lid][i].id = call.c.id

\* C15: CreateLineCommand.do with point ids as endpoints returns false and
\* stores nothing when either id is not in the points map or when start and
\* end are the same id.
C15_LineNeedsTwoPoints ==
    (/\ call.op = "execute_and_push" /\ call.c.type = "CreateLine"
     /\ call.c.start.kind = "str" /\ call.c.end.kind = "str"
     /\ \/ call.c.start.id \notin DOMAIN before.m.points
        \/ call.c.end.id \notin DOMAIN before.m.points
        \/ call.c.start.id = call.c.end.id) =>
        /\ call.ret = "false"
        /\ lines = before.m.lines
        /\ Und = before.u

C15_Witness ==
    /\ call.op = "execute_and_push" /\ call.c.type = "CreateLine" /\ call.ret = "true"
    /\ call.c.start.kind = "str" /\ call.c.start = call.c.end
    /\ call.c.start.id \in DOMAIN before.m.points
    /\ call.c.id \notin DOMAIN before.m.lines
    /\ lines[call.c.id] = <<call.c.start, call.c.end>>


\* C16: exclusive selection. In every reachable state at most one of
\* selected_point_id, selected_line_id and selected_plane_id is not None, and
\* after a click that picked an entity the id of its type is the picked id and
\* the other two are None.
C16_ExclusiveSelection ==
    /\ Cardinality({k \in 1 .. 3 :
            <<selected_point_id, selected_line_id, selected_plane_id>>[k] # None}) <= 1
    /\ (call.op = "select_at_screen_position" /\ selected # NoSelected) =>
           /\ selected_point_id = IF selected.type = "point" THEN selected.id ELSE None
           /\ selected_line_id = IF selected.type = "line" THEN selected.id ELSE None
           /\ selected_plane_id = IF selected.type = "plane" THEN selected.id ELSE None

\* a click picks the plane while the line was selected
C16_Witness ==
    /\ call.op = "select_at_screen_position"
    /\ selected = [type |-> "plane", id |-> "plane_1"]
    /\ before.m.selected_line_id = "l1"
    /\ selected_plane_id = "plane_1"
    /\ selected_line_id = None

\* C17: selecting a plane sets the active plane. After a click whose result
\* is a plane, active_plane_id is the id of that plane.
C17_PlaneSetsActive ==
    (call.op = "select_at_screen_position" /\ selected.type = "plane") =>
        active_plane_id = selected.id

\* a click picked the plane and the active plane is still what it was
C17_Witness ==
    /\ call.op = "select_at_screen_position"
    /\ selected = [type |-> "plane", id |-> "plane_1"]
    /\ selected_plane_id = "plane_1"
    /\ active_plane_id = None

\* C18: a click with no candidate within reach returns None and leaves no
\* point, line or plane selected, whatever was selected before.
C18_NoCandidateClears ==
    (call.op = "select_at_screen_position" /\ candidates = <<>>) =>
        /\ selected = NoSelected
        /\ call.ret = None
        /\ selected_point_id = None
        /\ selected_line_id = None
        /\ selected_plane_id = None

\* a click on nothing while the plane was selected
C18_Witness ==
    /\ call.op = "select_at_screen_position"
    /\ candidates = <<>>
    /\ before.m.selected_plane_id = "plane_1"
    /\ DOMAIN points = {"p1", "p2"}
    /\ selected_plane_id = None

\* C19: type priority. When a point is among the candidates of a click the
\* click selects a point, whatever the order, depths and pixel distances of
\* the candidates; with no point but a line among them it selects a line.
C19_TypePriority ==
    call.op = "select_at_screen_position" =>
        LET types == {candidates[i].type : i \in 1 .. Len(candidates)}
        IN  /\ "point" \in types => selected.type = "point"
            /\ ("point" \notin types /\ "line" \in types) => selected.type = "line"

\* a point, the line and the plane are candidates, the point is the farthest
\* from the camera and from the click, and the point is selected
C19_Witness ==
    /\ call.op = "select_at_screen_position"
    /\ candidates = <<Candidate("point", "p1", 10, 2),
                      Candidate("line", "l1", 3, 1),
                      Candidate("plane", "plane_1", 0, 1)>>
    /\ selected = [type |-> "point", id |-> "p1"]
    /\ selected_point_id = "p1"

\* C20: depth before pixel distance. Among the candidates of the selected
\* type none is nearer to the camera than the selected one, and none at the
\* same distance to the camera is nearer to the click.
C20_DepthBeforePixels ==
    (call.op = "select_at_screen_position" /\ selected # NoSelected) =>
        \E k \in 1 .. Len(candidates) :
            /\ candidates[k].type = selected.type
            /\ candidates[k].id = selected.id
            /\ \A i \in 1 .. Len(candidates) :
                   candidates[i].type = selected.type =>
                       /\ candidates[k].depth <= candidates[i].depth
                       /\ candidates[k].depth = candidates[i].depth =>
                              candidates[k].screen_dist <= candidates[i].screen_dist

\* two points are candidates; the selected one is nearer to the camera and
\* farther from the click than the other
C20_Witness ==
    /\ call.op = "select_at_screen_position"
    /\ candidates = <<Candidate("point", "p1", 3, 2), Candidate("point", "p2", 10, 1)>>
    /\ selected = [type |-> "point", id |-> "p2"]
    /\ selected_point_id = "p2"


\* C21: among the plane candidates of a click a plane of the user is selected
\* before a boundary (locked) plane, whatever their depths: a boundary plane
\* is selected only when no point, no line and no plane of the user is a
\* candidate.
C21_UserPlaneBeforeBoundary ==
    (call.op = "select_at_screen_position" /\ selected.type = "plane"
        /\ selected.id \in locked_planes) =>
        \A i \in 1 .. Len(candidates) :
            candidates[i].type = "plane" /\ candidates[i].id \in locked_planes

\* the plane of the user and the face of the box in front of it are the
\* candidates, and the click selects the face of the box
C21_Witness ==
    /\ call.op = "select_at_screen_position"
    /\ candidates = <<Candidate("plane", "boundary_plane_0", 0, 0),
                      Candidate("plane", "plane_1", 0, 1)>>
    /\ "boundary_plane_0" \in locked_planes
    /\ selected = [type |-> "plane", id |-> "boundary_plane_0"]
    /\ selected_plane_id = "boundary_plane_0"


\* C22: quantization. In every reachable state every stored coordinate (the
\* position of a point, a vertex of a plane, a coordinate endpoint of a line)
\* is a value rounded to 2 decimal places, that is a multiple of 10
\* thousandths.
C22_Quantized ==
    /\ \A p \in DOMAIN points : points[p].v % 10 = 0
    /\ \A pl \in DOMAIN planes :
           \A i \in 1 .. Len(planes[pl]) : planes[pl][i] % 10 = 0
    /\ \A l \in DOMAIN lines :
           \A k \in 1 .. 2 : lines[l][k].kind = "ndarray" => lines[l][k].xyz % 10 = 0

\* add_plane was given a vertex 1.234 and the plane holds 1.234
C22_Witness ==
    /\ call.op = "execute_and_push"
    /\ call.ret = "true"
    /\ call.c.type = "CreatePlane"
    /\ call.c.vertices = <<0, 1234, 2000>>
    /\ call.c.id \in DOMAIN planes
    /\ planes[call.c.id][2] = 1234


\* C23: polyline tool. A finalize with at least 2 accumulated point ids (the
\* point under the finalizing click included) issues one CreatePolyline whose
\* point_ids are the accumulated ids in click order, returns its id, and
\* leaves the accumulator empty.
C23_PolylineFinalize ==
    LET ids == IF click.pid # None /\ (click.ids = <<>> \/ Last(click.ids) # click.pid)
               THEN Append(click.ids, click.pid)
               ELSE click.ids
    IN  (click.tool = "polyline" /\ click.finalize /\ Len(ids) >= 2) =>
            /\ click.ret \in DOMAIN polylines
            /\ click.ret \notin DOMAIN before.m.polylines
            /\ polylines[click.ret].point_ids = ids
            /\ DOMAIN polylines = DOMAIN before.m.polylines \cup {click.ret}
            /\ undo_stack # <<>>
            /\ Last(undo_stack).type = "CreatePolyline"
            /\ Last(undo_stack).point_ids = ids
            /\ line_operator.polyline_control_point_ids = <<>>

\* a right click on empty space after clicks on p1 and p2: the handler is
\* left by an exception and there is no polyline
C23_Witness ==
    /\ click.tool = "polyline" /\ click.finalize /\ click.pid = None
    /\ click.ids = <<"p1", "p2">>
    /\ click.ret = "raise"
    /\ polylines = EmptyMap
    /\ line_operator.polyline_control_point_ids = <<>>

\* C24: a finalize with too few accumulated ids (polyline tool: fewer than
\* 2, curve tool: fewer than 3; the point under the finalizing click included)
\* creates no entity, returns None and leaves the accumulator empty, for a
\* finalizing click on a point and on empty space.
C24_FinalizeTooFew ==
    LET ids == IF click.pid # None /\ (click.ids = <<>> \/ Last(click.ids) # click.pid)
               THEN Append(click.ids, click.pid)
               ELSE click.ids
        few == \/ click.tool = "polyline" /\ Len(ids) < 2
               \/ click.tool = "curve" /\ Len(ids) < 3
    IN  (click.finalize /\ few) =>
            /\ click.ret = None
            /\ <<points, lines, planes, polylines, curves>>
                   = <<before.m.points, before.m.lines, before.m.planes,
                       before.m.polylines, before.m.curves>>
            /\ line_operator.polyline_control_point_ids = <<>>
            /\ line_operator.curve_control_point_ids = <<>>

\* a right click on empty space with one accumulated id: the id stays
C24_Witness ==
    /\ click.tool = "polyline" /\ click.finalize /\ click.pid = None
    /\ click.ids = <<"p1">>
    /\ click.ret = None
    /\ line_operator.polyline_control_point_ids = <<"p1">>

\* C25: with the line tool, a click on an existing point that follows a click
\* on a different point issues one CreateLine command connecting the two
\* points, a click on empty space changes no entity and no click list, and no
\* click creates a point.
C25_LineTool ==
    click.tool = "line" =>
        /\ (click.pid # None /\ click.ids # <<>> /\ click.ids[1] # click.pid) =>
               /\ undo_stack # <<>>
               /\ Last(undo_stack).type = "CreateLine"
               /\ Cardinality(DOMAIN lines \ DOMAIN before.m.lines) = 1
               /\ \A l \in DOMAIN lines \ DOMAIN before.m.lines :
                      lines[l] = <<RefEnd(click.ids[1]), RefEnd(click.pid)>>
        /\ click.pid = None =>
               /\ Mgr = before.m
               /\ Und = before.u
        /\ DOMAIN points = DOMAIN before.m.points

\* the second of two clicks with the line tool on two different points
C25_Witness ==
    /\ click.tool = "line"
    /\ click.pid = "p2"
    /\ click.ids = <<"p1">>

\* C26: the line chain of the plane tool over the lines selected in the order
\* (A,B), (C,B), (C,D), (A,D) yields the closed polygon [A,B,C,D], which the
\* finalize stores as the new plane; a chain of selected lines in which two
\* consecutive lines share no endpoint, or the last line does not return to
\* the first, yields no polygon, and without three selected points no plane.
C26_PlaneClosure ==
    (click.tool = "plane" /\ click.finalize /\ Len(click.line_ids) >= 3) =>
        LET m == before.m
            ids == click.line_ids
            n == Len(ids)
            position(e) == IF e.kind = "str" THEN m.points[e.id].v ELSE e.xyz
            ends(i) == {position(m.lines[ids[i]][1]), position(m.lines[ids[i]][2])}
            missing == \/ \E i \in 1 .. (n - 1) : ends(i) \cap ends(i + 1) = {}
                       \/ ends(n) \cap ends(1) = {}
            built == build_polygon_vertices(m, ids)
            ABCD == <<m.points["A"].v, m.points["B"].v, m.points["C"].v, m.points["D"].v>>
        IN  /\ ids = <<"l1", "l2", "l3", "l4">> =>
                   /\ built = Polygon(ABCD)
                   /\ click.ret \in DOMAIN planes \ DOMAIN m.planes
                   /\ planes[click.ret] = ABCD
            /\ missing =>
                   /\ built = NoPolygon
                   /\ Len(click.point_ids) < 3 => click.ret = None /\ planes = m.planes

\* the four lines in mixed directions were selected in that order and the
\* finalize made a plane of them
C26_Witness ==
    /\ click.tool = "plane" /\ click.finalize
    /\ click.line_ids = <<"l1", "l2", "l3", "l4">>
    /\ lines["l2"] = <<RefEnd("C"), RefEnd("B")>>
    /\ click.ret = "plane_0"
    /\ "plane_0" \in DOMAIN planes

\* C29: whenever at least 3 selected lines form a closed chain in the order
\* of their selection, each line taken in a suitable direction, the plane tool
\* builds the polygon, whatever direction the lines are stored in, the first
\* selected line included.
C29_AutoReversal ==
    (click.tool = "plane" /\ click.finalize /\ Len(click.line_ids) >= 3) =>
        LET m == before.m
            ids == click.line_ids
            n == Len(ids)
            position(e) == IF e.kind = "str" THEN m.points[e.id].v ELSE e.xyz
            from(d, i) == position(m.lines[ids[i]][IF d[i] THEN 2 ELSE 1])
            to(d, i) == position(m.lines[ids[i]][IF d[i] THEN 1 ELSE 2])
            chain == \E d \in [1 .. n -> BOOLEAN] :
                         /\ \A i \in 1 .. (n - 1) : to(d, i) = from(d, i + 1)
                         /\ to(d, n) = from(d, 1)
        IN  chain =>
                /\ build_polygon_vertices(m, ids).ret = "ndarray"
                /\ click.ret \in DOMAIN planes \ DOMAIN m.planes

\* the closed chain B-C, C-D, D-A, A-B was selected, its first line stored as
\* (C,B), and the finalize made no plane
C29_Witness ==
    /\ click.tool = "plane" /\ click.finalize
    /\ click.line_ids = <<"l2", "l3", "l4", "l1">>
    /\ before.m.lines["l2"] = <<RefEnd("C"), RefEnd("B")>>
    /\ click.ret = None
    /\ planes = before.m.planes

\* C30: a finalize of the plane tool that creates no plane returns null, a
\* finalize that creates a plane creates exactly one, and after either both
\* the selected line ids and the selected point ids are empty.
C30_FinalizeResets ==
    (click.tool = "plane" /\ click.finalize) =>
        /\ plane_operator.selected_line_ids = <<>>
        /\ plane_operator.selected_point_ids = <<>>
        /\ planes = before.m.planes => click.ret = None
        /\ planes # before.m.planes =>
               /\ click.ret \in DOMAIN planes \ DOMAIN before.m.planes
               /\ DOMAIN planes = DOMAIN before.m.planes \cup {click.ret}
               /\ \A p \in DOMAIN before.m.planes : planes[p] = before.m.planes[p]

\* a finalize with two selected lines and one selected point: no plane, null
\* returned, and the selection is still there
C30_Witness ==
    /\ click.tool = "plane" /\ click.finalize
    /\ click.line_ids = <<"l1", "l2">>
    /\ click.point_ids = <<"A">>
    /\ click.ret = None
    /\ planes = before.m.planes
    /\ plane_operator.selected_line_ids = <<"l1", "l2">>
    /\ plane_operator.selected_point_ids = <<"A">>

C28_PlaneOnly ==
    /\ (call.op \in {"execute_and_push", "undo", "redo"} /\ call.c.type = "CreatePlane") =>
           /\ points = before.m.points
           /\ lines = before.m.lines
           /\ polylines = before.m.polylines
           /\ curves = before.m.curves
    /\ (/\ call.op = "undo" /\ earlier # <<>>
        /\ earlier[1].c.type = "CreatePlane") =>
           earlier[1].c.id \notin DOMAIN planes

\* a plane was created locked and undo() was called next: the plane is still
\* there
C28_Witness ==
    /\ call.op = "undo" /\ earlier # <<>>
    /\ earlier[1].c.type = "CreatePlane" /\ earlier[1].c.locked
    /\ earlier[1].c.id \notin DOMAIN earlier[1].entities[3]
    /\ call.ret = "false"
    /\ earlier[1].c.id \in DOMAIN planes

\* C31: a command whose target id is not in the map of its category (a
\* Remove* command, MovePoint, SetPointColor, SetLineColor, SetPlaneColor)
\* returns false from do(), changes no entity, colour or locked state, and is
\* not pushed to the undo stack.
C31_MissingTarget ==
    LET c == call.c
        m == before.m
        missing ==
            \/ c.type \in {"RemovePoint", "MovePoint", "SetPointColor"}
                   /\ c.id \notin DOMAIN m.points
            \/ c.type \in {"RemoveLine", "SetLineColor"} /\ c.id \notin DOMAIN m.lines
            \/ c.type \in {"RemovePlane", "SetPlaneColor"} /\ c.id \notin DOMAIN m.planes
            \/ c.type = "RemovePolyline" /\ c.id \notin DOMAIN m.polylines
            \/ c.type = "RemoveCurve" /\ c.id \notin DOMAIN m.curves
    IN  (call.op = "execute_and_push" /\ missing) =>
            /\ call.ret = "false"
            /\ Entities(Mgr) = Entities(m)
            /\ undo_stack = before.u.undo_stack

\* set_point_color on an id that is not a point returned true and stored the
\* colour
C31_Witness ==
    /\ call.op = "execute_and_push"
    /\ call.c.type = "SetPointColor"
    /\ call.c.id \notin DOMAIN before.m.points
    /\ call.ret = "true"
    /\ call.c.id \in DOMAIN point_colors
    /\ call.c.id \notin DOMAIN before.m.point_colors
    /\ undo_stack # <<>> /\ Last(undo_stack).type = "SetPointColor"

SELECTION_THRESHOLD == 100
\* float('inf'): larger than every distance of the scenes below
Infinity == 1000000

\* np.linalg.norm(point1 - point2)
distance_point_to_point(point1, point2) ==
    IF point1 < point2 THEN point2 - point1 ELSE point1 - point2

\* the distance to the nearest position of the segment: the projection of
\* the point on the direction of the line, clipped to [0, line_len]
distance_point_to_line(point, line_start, line_end) ==
    LET line_len == distance_point_to_point(line_end, line_start)
    IN  IF line_len = 0
        THEN distance_point_to_point(point, line_start)
        ELSE LET dir == IF line_end > line_start THEN 1 ELSE -1
                 t == (point - line_start) * dir
                 clipped == IF t < 0 THEN 0 ELSE IF t > line_len THEN line_len ELSE t
                 closest_point == line_start + dir * clipped
             IN  distance_point_to_point(point, closest_point)

\* the vertices of a plane lie on the one axis of the model, so the normal of
\* the first three vanishes and the distance is the least distance to a vertex
distance_point_to_plane(point, plane_vertices) ==
    IF Len(plane_vertices) < 3 THEN Infinity
    ELSE LET distances == {distance_point_to_point(point, plane_vertices[i]) :
                              i \in 1 .. Len(plane_vertices)}
         IN  CHOOSE d \in distances : \A e \in distances : d <= e

\* for id in ...items(): if distance < min_distance: min_distance = distance;
\* closest_id = id
RECURSIVE closest_within(_, _, _)
closest_within(order, dist, best) ==
    IF order = <<>> THEN best
    ELSE LET id == Head(order)
         IN  closest_within(Tail(order), dist,
                            IF id \in DOMAIN dist /\ dist[id] < best.distance
                            THEN [id |-> id, distance |-> dist[id]]
                            ELSE best)

\* a variant that selects the nearest entity of all three categories
select_at_position_nearest_of_all(m, point_order, world_pos) ==
    LET threshold == SELECTION_THRESHOLD
        dp == [id \in DOMAIN m.points |->
                  distance_point_to_point(world_pos, m.points[id].v)]
        dl == [id \in DOMAIN m.lines |->
                  distance_point_to_line(world_pos, m.lines[id][1].xyz, m.lines[id][2].xyz)]
        dq == [id \in DOMAIN m.planes |-> distance_point_to_plane(world_pos, m.planes[id])]
        p == closest_within(point_order, dp, [id |-> None, distance |-> threshold])
        l == closest_within(LineNames, dl, [id |-> None, distance |-> p.distance])
        q == closest_within(PlaneNames, dq, [id |-> None, distance |-> l.distance])
        type == IF q.id # None THEN "plane" ELSE IF l.id # None THEN "line"
                ELSE IF p.id # None THEN "point" ELSE None
        id == IF q.id # None THEN q.id ELSE IF l.id # None THEN l.id ELSE p.id
    IN  [m |-> [m EXCEPT !.selected_point_id = IF type = "point" THEN id ELSE None,
                         !.selected_line_id = IF type = "line" THEN id ELSE None,
                         !.selected_plane_id = IF type = "plane" THEN id ELSE None],
         ret |-> [type |-> type, id |-> id]]

\* select_at_position: points first, then lines, then planes
select_at_position(m, point_order, world_pos) ==
    LET threshold == SELECTION_THRESHOLD
        dp == [id \in DOMAIN m.points |->
                  distance_point_to_point(world_pos, m.points[id].v)]
        closest_point == closest_within(point_order, dp,
                                        [id |-> None, distance |-> threshold])
        dl == [id \in DOMAIN m.lines |->
                  distance_point_to_line(world_pos, m.lines[id][1].xyz, m.lines[id][2].xyz)]
        closest_line == closest_within(LineNames, dl,
                                       [id |-> None, distance |-> threshold])
        dq == [id \in DOMAIN m.planes |-> distance_point_to_plane(world_pos, m.planes[id])]
        closest_plane == closest_within(PlaneNames, dq,
                                        [id |-> None, distance |-> Infinity])
    IN  IF closest_point.id # None
        THEN [m |-> [m EXCEPT !.selected_point_id = closest_point.id,
                              !.selected_line_id = None,
                              !.selected_plane_id = None],
              ret |-> [type |-> "point", id |-> closest_point.id]]
        ELSE IF closest_line.id # None
        THEN [m |-> [m EXCEPT !.selected_point_id = None,
                              !.selected_line_id = closest_line.id,
                              !.selected_plane_id = None],
              ret |-> [type |-> "line", id |-> closest_line.id]]
        ELSE IF closest_plane.id # None /\ closest_plane.distance < threshold
        THEN [m |-> [m EXCEPT !.selected_point_id = None,
                              !.selected_line_id = None,
                              !.selected_plane_id = closest_plane.id],
              ret |-> [type |-> "plane", id |-> closest_plane.id]]
        ELSE [m |-> [m EXCEPT !.selected_point_id = None,
                              !.selected_line_id = None,
                              !.selected_plane_id = None],
              ret |-> NoSelected]

\* the positions a caller asks about
WorldPositions == {0, 30, 500, 1950, 2030, 5000}

\* a call of select_at_position; the order of the points in the dictionary is
\* the order in which they were added
select_at_position_call ==
    \E world_pos \in WorldPositions, point_order \in {PointNames} :
        \E o \in {select_at_position(Mgr, point_order, world_pos)} :
            /\ SetMgr(o.m)
            /\ candidates' = <<>>
            /\ selected' = o.ret
            /\ RecordCall("select_at_position", o.ret.id,
                          [Command EXCEPT !.position = world_pos])
            /\ click' = NoClick
            /\ UNCHANGED <<undo_vars, editing_point_id, tool_vars>>

NextWorldSelect == select_at_position_call

\* the scenes: two points, a line between two positions, a plane of the user
\* and a face of the bounding box
WorldScript(a, b, s, e, q) ==
    <<CreatePlaneCommand("boundary_plane_0", <<2050, 2050, 4000>>, None, TRUE),
      CreatePointCommand("p1", Point(a).v, None, FALSE),
      CreatePointCommand("p2", Point(b).v, None, FALSE),
      CreateLineCommand("l1", XyzEnd(s), XyzEnd(e), None, FALSE),
      CreatePlaneCommand("plane_1", q, None, FALSE)>>

InitWorldSelect ==
    \E a \in {0, 60, 1000}, b \in {0, 60, 1000}, s \in {0, 1000}, e \in {0, 1000},
       q \in {<<0, 60, 1000>>, <<2000, 2000, 3000>>} :
        InitTool(WorldScript(a, b, s, e, q), {"world_select"})

SpecWorldSelect == InitWorldSelect /\ [][NextWorldSelect]_vars

C34_UndoRedoRoundTrip ==
    [][(/\ call.op = "undo" /\ call.ret = "true"
        /\ call'.op = "redo") =>
           /\ call'.ret = "true"
           /\ Entities(Mgr') = Entities(before.m)
           /\ undo_stack' = before.u.undo_stack
           /\ redo_stack' = before.u.redo_stack]_vars


\* the creation of a point that carried a colour of its own is redone: the
\* colour the point had before the undo() came from the set_point_color
\* beneath the creation on the undo stack, and after the redo() the point
\* has the default colour
C34_Witness ==
    /\ call.op = "redo" /\ call.ret = "true"
    /\ call.c.type = "CreatePoint" /\ call.c.color = None
    /\ call.c.id \notin DOMAIN before.m.point_colors
    /\ point_colors[call.c.id] = DefaultPointColor
    /\ Len(undo_stack) = 2
    /\ undo_stack[2] = call.c
    /\ undo_stack[1].type = "SetPointColor"
    /\ undo_stack[1].id = call.c.id
    /\ undo_stack[1].new_color # DefaultPointColor


\* the command is about an entity that is locked in m
ConcernsLocked(c, m) ==
    \/ c.type \in {"CreatePoint", "RemovePoint", "MovePoint", "SetPointColor"}
       /\ c.id \in m.locked_points
    \/ c.type \in {"CreateLine", "RemoveLine", "SetLineColor", "CreatePolyline",
                   "RemovePolyline", "CreateCurve", "RemoveCurve"}
       /\ c.id \in m.locked_lines
    \/ c.type \in {"CreatePlane", "RemovePlane", "SetPlaneColor"}
       /\ c.id \in m.locked_planes

NoneLocked(stack, m) == \A i \in 1 .. Len(stack) : ~ConcernsLocked(stack[i], m)

\* when no command on the undo stack concerns a locked entity, undo() on a
\* non-empty undo stack succeeds and takes the top command off, so no failed
\* undo stays on top of the commands beneath it
C35_UndoSucceeds ==
    (/\ call.op = "undo"
     /\ before.u.undo_stack # <<>>
     /\ NoneLocked(before.u.undo_stack, before.m)) =>
        /\ call.ret = "true"
        /\ Len(undo_stack) = Len(before.u.undo_stack) - 1


\* the user stops editing and from then on only presses undo
begin_unwind ==
    /\ session \in Sessions
    /\ session' = "unwind"
    /\ UNCHANGED <<mgr_vars, undo_vars, call, before, earlier, editing_point_id,
                   tool_vars, click, candidates, selected>>

\* undo() while there is something to undo
unwind_undo ==
    /\ session = "unwind"
    /\ undo_stack # <<>>
    /\ undo

NextUnwind ==
    \/ Next
    \/ begin_unwind
    \/ unwind_undo

\* the sessions of Spec, each of which may end in repeated undo()
SpecUnwind == Init /\ [][NextUnwind]_vars /\ WF_vars(unwind_undo)

\* C35: history can always be unwound. In every state where no command on
\* the undo stack concerns a locked entity an undo() on a non-empty stack
\* succeeds, and once only undo() is called the undo stack becomes empty.
C35_Unwinds ==
    /\ []C35_UndoSucceeds
    /\ (session = "unwind" /\ NoneLocked(undo_stack, Mgr)) ~> (undo_stack = <<>>)

\* repeated undo() has emptied an undo stack of two commands
C35_Witness ==
    /\ session = "unwind"
    /\ call.op = "undo" /\ call.ret = "true"
    /\ undo_stack = <<>>
    /\ Len(redo_stack) >= 2
    /\ NoneLocked(redo_stack, Mgr)


C37_ActivePlaneExists ==
    active_plane_id # None => active_plane_id \in DOMAIN planes

\* the active plane has been removed and is still the active plane
C37_Witness ==
    /\ call.op \in {"execute_and_push", "undo"}
    /\ call.c.type \in {"RemovePlane", "CreatePlane"}
    /\ call.ret = "true"
    /\ before.m.active_plane_id = call.c.id
    /\ call.c.id \in DOMAIN before.m.planes
    /\ call.c.id \notin DOMAIN planes
    /\ active_plane_id = call.c.id
    /\ selected_plane_id = None


\* C38: a click of the polyline tool or of the curve tool that does not
\* finalize (it highlights the picked point and adds it to the control
\* points) leaves the undo stack and the redo stack as they were.
C38_AccumulateKeepsHistory ==
    (/\ call.op \in {"polyline", "curve"}
     /\ click.tool = call.op
     /\ ~click.finalize) =>
        /\ undo_stack = before.u.undo_stack
        /\ redo_stack = before.u.redo_stack

\* a click on a point without finalize has put a colour command on the undo
\* stack and emptied the redo stack
C38_Witness ==
    /\ call.op = "polyline" /\ click.tool = "polyline"
    /\ ~click.finalize
    /\ click.pid \in DOMAIN points
    /\ before.u.redo_stack # <<>>
    /\ redo_stack = <<>>
    /\ undo_stack # <<>>
    /\ Last(undo_stack).type = "SetPointColor"
    /\ Last(undo_stack).id = click.pid
    /\ Last(undo_stack).new_color = "yellow"


\* ---------------------------------- the line tools while points are deleted
\* SceneInspector._delete_point on a point of the scene; no point is in the
\* coordinate editor during these sessions, so the editor has nothing to clear
delete_scene_point ==
    /\ editing_point_id = None
    /\ \E point_id \in DOMAIN points : Push(RemovePointCommand(point_id))

\* a session with the polyline tool or the curve tool in which points are
\* deleted and the deletion is undone between the clicks
NextToolDelete ==
    \/ session = "polyline" /\ try_create_polyline
    \/ session = "curve" /\ try_create_curve
    \/ delete_scene_point
    \/ undo

InitToolDelete == InitTool(PointsScript, {"polyline", "curve"})
SpecToolDelete == InitToolDelete /\ [][NextToolDelete]_vars

\* C39: when handle_polyline_click or handle_curve_click returns an id, a
\* polyline or a curve with that id is in the map of the manager after the
\* call, also when a control point was deleted between its click and the
\* finalize.
C39_ReturnedIdExists ==
    (/\ call.op \in {"polyline", "curve"}
     /\ click.tool = call.op
     /\ click.ret \notin {None, "raise"}) =>
        \/ click.ret \in DOMAIN polylines
        \/ click.tool = "curve" /\ click.ret \in DOMAIN curves

\* the curve tool returns curve_0 for control points of which one has been
\* deleted, and no curve exists
C39_Witness ==
    /\ call.op = "curve" /\ click.tool = "curve"
    /\ click.finalize
    /\ click.ret = "curve_0"
    /\ \E i \in 1 .. Len(click.ids) : click.ids[i] \notin DOMAIN points
    /\ curves = EmptyMap
    /\ polylines = EmptyMap
    /\ line_operator.curve_control_point_ids = <<>>

====
